---------------------------- MODULE Spec2Model ----------------------------
(***************************************************************************)
(* A model of the chess rules engine (engine/core) and of the cancellable  *)
(* move-tree search (engine/analyzer.py).                                  *)
(*                                                                         *)
(* Grades are Decimal values in the source; here they are integers in      *)
(* hundredths (grade * 100), which is exact for every value the evaluator  *)
(* produces.                                                               *)
(***************************************************************************)
EXTENDS Integers, Sequences, FiniteSets, TLC

(***************************************************************************)
(* primitives.py                                                           *)
(***************************************************************************)

Min2(a, b) == IF a < b THEN a ELSE b

Max2(a, b) == IF a > b THEN a ELSE b

\* A variant of Coordinate: _normalize without its two max(0, ...) lines.
Coordinate_NoLowerClamp(x, y) == [x |-> Min2(7, x), y |-> Min2(7, y)]

\* Coordinate.__init__ followed by Coordinate._normalize: the pair is clamped.
Coordinate(x, y) == [x |-> Max2(0, Min2(7, x)), y |-> Max2(0, Min2(7, y))]

\* Coordinate.delta
delta(c, dx, dy) == Coordinate(c.x + dx, c.y + dy)

\* The value False that Position stores when there is no en-passant target.
NoCoordinate == [x |-> -1, y |-> -1]

EmptyCell == [kind |-> "empty", color |-> "none"]

\* EmptyMove(): an object of a type of its own, with no start and no finish.
EmptyMove == [start |-> NoCoordinate, finish |-> NoCoordinate, promotion |-> "0000"]

(***************************************************************************)
(* position.py: figures, moves and their shape predicates                  *)
(***************************************************************************)

Figure(kind, color) == [kind |-> kind, color |-> color]

\* isinstance(cell, cls) under the class hierarchy of position.py:
\* every figure is a Figure, and Queen derives from both Rook and Bishop.
IsInstance(cell, cls) ==
    CASE cls = "EmptyCell" -> cell.kind = "empty"
      [] cls = "Figure" -> cell.kind # "empty"
      [] cls = "King" -> cell.kind = "k"
      [] cls = "Queen" -> cell.kind = "q"
      [] cls = "Rook" -> cell.kind \in {"r", "q"}
      [] cls = "Bishop" -> cell.kind \in {"b", "q"}
      [] cls = "Knight" -> cell.kind = "n"
      [] cls = "Pawn" -> cell.kind = "p"

\* Move(start, finish[, promotion]); promotion "none" is the source's False.
Move(start, finish, promotion) ==
    [start |-> start, finish |-> finish, promotion |-> promotion]

is_promotion(move) == move.promotion # "none"

is_short_castling(move, figure) ==
    IsInstance(figure, "King") /\ (move.start.x - move.finish.x = -2)

is_long_castling(move, figure) ==
    IsInstance(figure, "King") /\ (move.start.x - move.finish.x = 2)

Abs(n) == IF n < 0 THEN -n ELSE n

is_double_jump(move, figure) ==
    IsInstance(figure, "Pawn") /\ Abs(move.start.y - move.finish.y) = 2

is_en_passant(move, figure, en_passant) ==
    /\ IsInstance(figure, "Pawn")
    /\ en_passant # NoCoordinate
    /\ en_passant = move.finish

(***************************************************************************)
(* position.py: Board and Position                                         *)
(***************************************************************************)

\* Board.__getitem__ with a Coordinate
Cell(board, c) == board[c.x][c.y]

\* Board.__setitem__
SetCell(board, c, value) == [board EXCEPT ![c.x][c.y] = value]

Opposite(color) == IF color = "w" THEN "b" ELSE "w"

(***************************************************************************)
(* position.py: the FEN text of a board and of a position.  A text is the  *)
(* list of its characters; as_fen is a tuple of six fields.  A function    *)
(* that can raise returns [raised, value], raised being "none" or the      *)
(* exception's class.                                                      *)
(***************************************************************************)

\* What a function that can raise gives back: the value it returns, or the
\* class of the exception it raises.
Return(value) == [raised |-> "none", value |-> value]

Raise(exception) == [raised |-> exception, value |-> "no value"]

\* text[a:b], Python's slice of a text
Slice(text, a, b) == SubSeq(text, a + 1, Min2(b, Len(text)))

\* string.ascii_lowercase and the upper-case letters, letter by letter.
ascii_lowercase ==
    <<"a", "b", "c", "d", "e", "f", "g", "h", "i", "j", "k", "l", "m",
      "n", "o", "p", "q", "r", "s", "t", "u", "v", "w", "x", "y", "z">>

ascii_uppercase ==
    <<"A", "B", "C", "D", "E", "F", "G", "H", "I", "J", "K", "L", "M",
      "N", "O", "P", "Q", "R", "S", "T", "U", "V", "W", "X", "Y", "Z">>

\* The place of a character in a list of characters, 0 if it is not there.
IndexIn(letters, symbol) ==
    IF \E i \in 1..Len(letters) : letters[i] = symbol
    THEN CHOOSE i \in 1..Len(letters) : letters[i] = symbol
    ELSE 0

\* str.isupper, str.lower and str.upper of one character
isupper(symbol) == IndexIn(ascii_uppercase, symbol) # 0

lower(symbol) ==
    IF isupper(symbol) THEN ascii_lowercase[IndexIn(ascii_uppercase, symbol)] ELSE symbol

upper(symbol) ==
    IF IndexIn(ascii_lowercase, symbol) # 0
    THEN ascii_uppercase[IndexIn(ascii_lowercase, symbol)]
    ELSE symbol

\* The decimal digits, as characters.
DecimalDigits == <<"0", "1", "2", "3", "4", "5", "6", "7", "8", "9">>

RECURSIVE str(_)
\* str(n) of an int n >= 0
str(n) ==
    IF n < 10 THEN <<DecimalDigits[n + 1]>>
    ELSE Append(str(n \div 10), DecimalDigits[(n % 10) + 1])

RECURSIVE int(_)
\* int(text) of a text of decimal digits
int(text) ==
    IF Len(text) = 1 THEN IndexIn(DecimalDigits, text[1]) - 1
    ELSE int(SubSeq(text, 1, Len(text) - 1)) * 10
             + (IndexIn(DecimalDigits, text[Len(text)]) - 1)

\* The keys of FIGURES: the symbols of the six figure classes.
FIGURES == {"k", "q", "r", "b", "n", "p"}

\* Figure.fen_symbol
fen_symbol(cell) == IF cell.color = "w" THEN upper(cell.kind) ELSE cell.kind

\* A list index as Python resolves it on a list of 8 items (-1 is the last).
PyIndex(i) == IF i < 0 THEN i + 8 ELSE i

\* Board.__init__ without fen_board: 8 x 8 EmptyCell.
EmptyBoard == [x \in 0..7 |-> [y \in 0..7 |-> EmptyCell]]

RECURSIVE load_from_fen(_, _, _, _)
\* Board._load_from_fen, the loop from the state (cells, x, y).  An unknown
\* symbol raises KeyError (FIGURES[symbol]); a file past the eighth or a rank
\* past the sixteenth raises IndexError; ranks 9 to 16 are written through
\* Python's negative indices.
load_from_fen(cells, fen_board, x, y) ==
    IF Len(fen_board) = 0 THEN Return(cells)
    ELSE IF Head(fen_board) = "/"
         THEN load_from_fen(cells, Tail(fen_board), 0, y - 1)
    ELSE IF IndexIn(DecimalDigits, Head(fen_board)) \in 2..9
         THEN load_from_fen(cells, Tail(fen_board), x + int(<<Head(fen_board)>>), y)
    ELSE IF lower(Head(fen_board)) \notin FIGURES
         THEN Raise("KeyError")
    ELSE IF x \notin DOMAIN cells \/ PyIndex(y) \notin DOMAIN cells[x]
         THEN Raise("IndexError")
    ELSE load_from_fen(
             [cells EXCEPT ![x][PyIndex(y)] =
                 Figure(lower(Head(fen_board)),
                        IF isupper(Head(fen_board)) THEN "w" ELSE "b")],
             Tail(fen_board), x + 1, y)

\* Board(fen_board)
Board(fen_board) == load_from_fen(EmptyBoard, fen_board, 0, 7)

RECURSIVE Board_as_fen_from(_, _, _)
\* The loops of Board.as_fen from the i-th cell on (cell 0 is a8, the cells
\* go rank by rank), with the empty_chain counted so far.
Board_as_fen_from(board, i, empty_chain) ==
    IF i = 64 THEN <<>>
    ELSE LET y == 7 - (i \div 8)
             x == i % 8
             empty == IsInstance(board[x][y], "EmptyCell")
             chain == IF empty THEN empty_chain + 1 ELSE empty_chain
             written == (~empty \/ x = 7) /\ chain > 0
         IN (IF written THEN str(chain) ELSE <<>>)
                \o (IF ~empty THEN <<fen_symbol(board[x][y])>> ELSE <<>>)
                \o (IF x = 7 /\ y # 0 THEN <<"/">> ELSE <<>>)
                \o Board_as_fen_from(board, i + 1, IF written THEN 0 ELSE chain)

\* Board.as_fen
Board_as_fen(board) == Board_as_fen_from(board, 0, 0)

\* A variant of Coordinate_str: the rank is written as y, not y + 1.
Coordinate_str_RankFromZero(c) == <<ascii_lowercase[c.x + 1]>> \o str(c.y)

\* Coordinate.__str__
Coordinate_str(c) == <<ascii_lowercase[c.x + 1]>> \o str(c.y + 1)

\* Coordinate(text): ascii_lowercase.index of the first character and int of
\* the second less 1, then _normalize.  A missing character raises
\* IndexError; a first character that is no lower-case letter, or a second
\* that is no digit, raises ValueError.
Coordinate_of(text) ==
    IF Len(text) = 0 THEN Raise("IndexError")
    ELSE IF IndexIn(ascii_lowercase, text[1]) = 0 THEN Raise("ValueError")
    ELSE IF Len(text) = 1 THEN Raise("IndexError")
    ELSE IF IndexIn(DecimalDigits, text[2]) = 0 THEN Raise("ValueError")
    ELSE Return(Coordinate(IndexIn(ascii_lowercase, text[1]) - 1, int(<<text[2]>>) - 1))

\* Move(text): Coordinate(text[:2]), Coordinate(text[2:4]) and, for a longer
\* text, FIGURES[text[4]], which raises KeyError for an unknown symbol.
Move_of(text) ==
    IF Coordinate_of(Slice(text, 0, 2)).raised # "none"
    THEN Raise(Coordinate_of(Slice(text, 0, 2)).raised)
    ELSE IF Coordinate_of(Slice(text, 2, 4)).raised # "none"
    THEN Raise(Coordinate_of(Slice(text, 2, 4)).raised)
    ELSE IF Len(text) > 4 /\ text[5] \notin FIGURES
    THEN Raise("KeyError")
    ELSE Return(Move(Coordinate_of(Slice(text, 0, 2)).value,
                     Coordinate_of(Slice(text, 2, 4)).value,
                     IF Len(text) > 4 THEN text[5] ELSE "none"))

\* Position.as_fen
as_fen(p) ==
    << Board_as_fen(p.board),
       p.turn,
       IF \A c \in {"w", "b"} : \A s \in {"k", "q"} : ~p.castling[c][s]
       THEN <<"-">>
       ELSE (IF p.castling["w"]["k"] THEN <<"K">> ELSE <<>>)
                \o (IF p.castling["w"]["q"] THEN <<"Q">> ELSE <<>>)
                \o (IF p.castling["b"]["k"] THEN <<"k">> ELSE <<>>)
                \o (IF p.castling["b"]["q"] THEN <<"q">> ELSE <<>>),
       IF p.en_passant = NoCoordinate THEN <<"-">> ELSE Coordinate_str(p.en_passant),
       str(p.number_of_reversible_moves),
       str(p.move_number + 1) >>

\* 'K' in fen_position[2]
Contains(text, symbol) == \E i \in 1..Len(text) : text[i] = symbol

\* The Position that Position.from_fen builds around a loaded board.
from_fen_fields(board, fen_position) ==
    [board |-> board,
     turn |-> fen_position[2],
     castling |-> [c \in {"w", "b"} |-> [s \in {"k", "q"} |->
                      Contains(fen_position[3], IF c = "w" THEN upper(s) ELSE s)]],
     en_passant |-> IF fen_position[4] = <<"-">> THEN NoCoordinate
                    ELSE Coordinate_of(fen_position[4]).value,
     number_of_reversible_moves |-> int(fen_position[5]),
     move_number |-> int(fen_position[6]) - 1]

\* The result of from_fen for the result of Board(fen_position[0]).
from_fen_with(loaded, fen_position) ==
    IF loaded.raised # "none" THEN Raise(loaded.raised)
    ELSE IF fen_position[4] # <<"-">> /\ Coordinate_of(fen_position[4]).raised # "none"
    THEN Raise(Coordinate_of(fen_position[4]).raised)
    ELSE Return(from_fen_fields(loaded.value, fen_position))

\* Position.from_fen, without moves
from_fen(fen_position) == from_fen_with(Board(fen_position[1]), fen_position)

\* Position.deepcopy: from_fen(as_fen): every field is rebuilt from its
\* encoded value; the full-move number is written as n + 1 and read as n.
\* from_fen and as_fen above compute the texts; deepcopy_IsRoundTrip states
\* that the two agree.
deepcopy(p) ==
    [board |-> [x \in 0..7 |-> [y \in 0..7 |-> p.board[x][y]]],
     turn |-> p.turn,
     castling |-> [c \in {"w", "b"} |-> [s \in {"k", "q"} |-> p.castling[c][s]]],
     en_passant |-> p.en_passant,
     number_of_reversible_moves |-> p.number_of_reversible_moves,
     move_number |-> (p.move_number + 1) - 1]

\* The rook branch of Position._update_castling for a figure standing on c.
CornerCleared(castling, cell, c) ==
    IF IsInstance(cell, "Rook")
       /\ ((cell.color = "w" /\ c.y = 0) \/ (cell.color = "b" /\ c.y = 7))
    THEN IF c.x = 0 THEN [castling EXCEPT ![cell.color]["q"] = FALSE]
         ELSE IF c.x = 7 THEN [castling EXCEPT ![cell.color]["k"] = FALSE]
         ELSE castling
    ELSE castling

\* A variant of update_castling: a king's move writes True to its
\* queen-side right.
update_castling_SetsQueenSide(p, start, finish) ==
    LET figure == Cell(p.board, start)
        destination == Cell(p.board, finish)
        c1 == IF IsInstance(figure, "King")
              THEN [p.castling EXCEPT ![figure.color] = [s \in {"k", "q"} |-> s = "q"]]
              ELSE p.castling
        c2 == CornerCleared(c1, figure, start)
        c3 == CornerCleared(c2, destination, finish)
    IN [p EXCEPT !.castling = c3]

\* A variant of update_castling: the figure on the destination square is not
\* looked at.
update_castling_IgnoresCapture(p, start, finish) ==
    LET figure == Cell(p.board, start)
        c1 == IF IsInstance(figure, "King")
              THEN [p.castling EXCEPT ![figure.color] = [s \in {"k", "q"} |-> FALSE]]
              ELSE p.castling
        c2 == CornerCleared(c1, figure, start)
    IN [p EXCEPT !.castling = c2]

\* A variant of update_castling: the corner a rook starts from is not looked
\* at.
update_castling_IgnoresRookMove(p, start, finish) ==
    LET figure == Cell(p.board, start)
        destination == Cell(p.board, finish)
        c1 == IF IsInstance(figure, "King")
              THEN [p.castling EXCEPT ![figure.color] = [s \in {"k", "q"} |-> FALSE]]
              ELSE p.castling
        c3 == CornerCleared(c1, destination, finish)
    IN [p EXCEPT !.castling = c3]

\* Position._update_castling
update_castling(p, start, finish) ==
    LET figure == Cell(p.board, start)
        destination == Cell(p.board, finish)
        c1 == IF IsInstance(figure, "King")
              THEN [p.castling EXCEPT ![figure.color] = [s \in {"k", "q"} |-> FALSE]]
              ELSE p.castling
        c2 == CornerCleared(c1, figure, start)
        c3 == CornerCleared(c2, destination, finish)
    IN [p EXCEPT !.castling = c3]

\* Position._move_simple
move_simple(p, start, finish) ==
    [update_castling(p, start, finish) EXCEPT
        !.board = SetCell(SetCell(@, finish, Cell(@, start)), start, EmptyCell)]

\* Position._move_promotion
move_promotion(p, start, finish, promotion) ==
    LET color == Cell(p.board, start).color
    IN [update_castling(p, start, finish) EXCEPT
           !.board = SetCell(SetCell(@, start, EmptyCell), finish, Figure(promotion, color))]

\* Position._move_short_castling
move_short_castling(p, start, finish) ==
    move_simple(move_simple(p, start, finish), delta(finish, 1, 0), delta(start, 1, 0))

\* A variant of move_long_castling: the rook is taken from the cell next to
\* the king's finish.
move_long_castling_NearRook(p, start, finish) ==
    move_simple(move_simple(p, start, finish), delta(finish, -1, 0), delta(start, -1, 0))

\* Position._move_long_castling
move_long_castling(p, start, finish) ==
    move_simple(move_simple(p, start, finish), delta(finish, -2, 0), delta(start, -1, 0))

\* The value Position._move_double_jump stores in _next_en_passant.
double_jump_target(start, finish) == Coordinate(start.x, (start.y + finish.y) \div 2)

\* Position._move_double_jump (the board part)
move_double_jump(p, start, finish) == move_simple(p, start, finish)

\* A variant of move_en_passant: the emptied cell is on the far side of the
\* target.
move_en_passant_FarSide(p, start, finish) ==
    LET color == Cell(p.board, start).color
        y == IF color = "w" THEN finish.y + 1 ELSE PyIndex(finish.y - 1)
    IN [move_simple(p, start, finish) EXCEPT !.board[finish.x][y] = EmptyCell]

\* Position._move_en_passant
move_en_passant(p, start, finish) ==
    LET color == Cell(p.board, start).color
        y == IF color = "w" THEN PyIndex(finish.y - 1) ELSE finish.y + 1
    IN [move_simple(p, start, finish) EXCEPT !.board[finish.x][y] = EmptyCell]

\* The dispatch of Position.move: the position with board and castling
\* rights updated; EmptyMove changes neither.
move_dispatch(p, move) ==
    LET start == move.start
        finish == move.finish
        figure == Cell(p.board, start)
    IN IF move = EmptyMove THEN p
       ELSE IF is_promotion(move) THEN move_promotion(p, start, finish, move.promotion)
       ELSE IF is_short_castling(move, figure) THEN move_short_castling(p, start, finish)
       ELSE IF is_long_castling(move, figure) THEN move_long_castling(p, start, finish)
       ELSE IF is_double_jump(move, figure) THEN move_double_jump(p, start, finish)
       ELSE IF is_en_passant(move, figure, p.en_passant) THEN move_en_passant(p, start, finish)
       ELSE move_simple(p, start, finish)

\* A variant of next_en_passant: a move that is no double jump keeps the
\* target.
next_en_passant_Keeps(p, move) ==
    IF move = EmptyMove THEN p.en_passant
    ELSE LET figure == Cell(p.board, move.start)
         IN IF /\ ~is_promotion(move)
               /\ ~is_short_castling(move, figure)
               /\ ~is_long_castling(move, figure)
               /\ is_double_jump(move, figure)
            THEN double_jump_target(move.start, move.finish)
            ELSE p.en_passant

\* _next_en_passant at the end of Position.move: False unless the dispatch
\* took the double-jump branch.
next_en_passant(p, move) ==
    IF move = EmptyMove THEN NoCoordinate
    ELSE LET figure == Cell(p.board, move.start)
         IN IF /\ ~is_promotion(move)
               /\ ~is_short_castling(move, figure)
               /\ ~is_long_castling(move, figure)
               /\ is_double_jump(move, figure)
            THEN double_jump_target(move.start, move.finish)
            ELSE NoCoordinate

\* A variant of next_reversible: only a capture resets the clock.
next_reversible_CapturesOnly(p, move) ==
    IF move = EmptyMove THEN p.number_of_reversible_moves
    ELSE IF ~IsInstance(Cell(p.board, move.finish), "EmptyCell")
         THEN 0
         ELSE p.number_of_reversible_moves + 1

\* A variant of next_reversible: an EmptyMove counts as a reversible move.
next_reversible_CountsEmptyMove(p, move) ==
    IF move = EmptyMove THEN p.number_of_reversible_moves + 1
    ELSE IF ~IsInstance(Cell(p.board, move.finish), "EmptyCell")
            \/ IsInstance(Cell(p.board, move.start), "Pawn")
         THEN 0
         ELSE p.number_of_reversible_moves + 1

\* The half-move clock after Position.move.
next_reversible(p, move) ==
    IF move = EmptyMove THEN p.number_of_reversible_moves
    ELSE IF ~IsInstance(Cell(p.board, move.finish), "EmptyCell")
            \/ IsInstance(Cell(p.board, move.start), "Pawn")
         THEN 0
         ELSE p.number_of_reversible_moves + 1

\* Position._switch_turn
switch_turn(turn) == IF turn = "w" THEN "b" ELSE "w"

\* A variant of move: the full-move number grows when White has moved.
move_CountsWhiteMoves(p, m) ==
    [move_dispatch(p, m) EXCEPT
        !.turn = switch_turn(p.turn),
        !.en_passant = next_en_passant(p, m),
        !.number_of_reversible_moves = next_reversible(p, m),
        !.move_number = IF p.turn = "w" THEN p.move_number + 1 ELSE p.move_number]

\* Position.move
move(p, m) ==
    [move_dispatch(p, m) EXCEPT
        !.turn = switch_turn(p.turn),
        !.en_passant = next_en_passant(p, m),
        !.number_of_reversible_moves = next_reversible(p, m),
        !.move_number = IF p.turn = "b" THEN p.move_number + 1 ELSE p.move_number]


(***************************************************************************)
(* position.py: the pseudo-legal move generators                           *)
(***************************************************************************)

RECURSIVE ConcatAll(_)
\* moves += ... over a loop: the lists of the iterations, in order.
ConcatAll(lists) ==
    IF Len(lists) = 0 THEN <<>> ELSE Head(lists) \o ConcatAll(Tail(lists))

OnBoard(x, y) == (0 <= x) /\ (x < 8) /\ (0 <= y) /\ (y < 8)

\* The (delta_x, delta_y) pairs of King._simple_moves, in loop order.
KingDeltas ==
    << <<-1, -1>>, <<-1, 0>>, <<-1, 1>>, <<0, -1>>, <<0, 0>>,
       <<0, 1>>, <<1, -1>>, <<1, 0>>, <<1, 1>> >>

\* King._simple_moves
king_simple_moves(color, coordinate, position) ==
    ConcatAll([i \in 1..Len(KingDeltas) |->
        LET d == KingDeltas[i]
            current == delta(coordinate, d[1], d[2])
            destination == Cell(position.board, current)
        IN IF /\ ~(d[1] = 0 /\ d[2] = 0)
              /\ OnBoard(coordinate.x + d[1], coordinate.y + d[2])
              /\ (IsInstance(destination, "EmptyCell") \/ destination.color # color)
           THEN <<Move(coordinate, current, "none")>>
           ELSE <<>>])

\* King._castling_moves
king_castling_moves(color, coordinate, position) ==
    LET short == IF /\ position.castling[color]["k"]
                    /\ \A dx \in 1..2 :
                          IsInstance(Cell(position.board, delta(coordinate, dx, 0)), "EmptyCell")
                 THEN <<Move(coordinate, delta(coordinate, 2, 0), "none")>>
                 ELSE <<>>
        long == IF /\ position.castling[color]["q"]
                   /\ \A dx \in -3..-1 :
                         IsInstance(Cell(position.board, delta(coordinate, dx, 0)), "EmptyCell")
                THEN <<Move(coordinate, delta(coordinate, -2, 0), "none")>>
                ELSE <<>>
    IN short \o long

\* King.available_moves
king_available_moves(color, coordinate, position) ==
    king_simple_moves(color, coordinate, position)
        \o king_castling_moves(color, coordinate, position)

RECURSIVE ray_moves(_, _, _, _, _)
\* The while loop of _delta_moves for one delta, continued from `current`.
ray_moves(color, coordinate, position, current, d) ==
    LET next == delta(current, d[1], d[2])
        destination == Cell(position.board, next)
    IN IF (next.x - current.x # d[1]) \/ (next.y - current.y # d[2]) THEN <<>>
       ELSE IF IsInstance(destination, "EmptyCell")
            THEN <<Move(coordinate, next, "none")>>
                     \o ray_moves(color, coordinate, position, next, d)
            ELSE IF destination.color # color
                 THEN <<Move(coordinate, next, "none")>>
                 ELSE <<>>

\* _delta_moves
delta_moves(color, coordinate, position, deltas) ==
    ConcatAll([i \in 1..Len(deltas) |->
        ray_moves(color, coordinate, position, coordinate, deltas[i])])

\* Rook._parallel_moves
parallel_moves(color, coordinate, position) ==
    delta_moves(color, coordinate, position,
                << <<-1, 0>>, <<1, 0>>, <<0, -1>>, <<0, 1>> >>)

\* Bishop._diagonal_moves
diagonal_moves(color, coordinate, position) ==
    delta_moves(color, coordinate, position,
                << <<-1, -1>>, <<-1, 1>>, <<1, -1>>, <<1, 1>> >>)

\* Queen.available_moves
queen_available_moves(color, coordinate, position) ==
    parallel_moves(color, coordinate, position)
        \o diagonal_moves(color, coordinate, position)

\* The (delta_x, delta_y) pairs of Knight.available_moves, in loop order.
KnightDeltas ==
    << <<-2, -2>>, <<-2, -1>>, <<-2, 1>>, <<-2, 2>>,
       <<-1, -2>>, <<-1, -1>>, <<-1, 1>>, <<-1, 2>>,
       <<1, -2>>, <<1, -1>>, <<1, 1>>, <<1, 2>>,
       <<2, -2>>, <<2, -1>>, <<2, 1>>, <<2, 2>> >>

\* Knight.available_moves
knight_available_moves(color, coordinate, position) ==
    ConcatAll([i \in 1..Len(KnightDeltas) |->
        LET d == KnightDeltas[i]
            current == delta(coordinate, d[1], d[2])
            destination == Cell(position.board, current)
        IN IF /\ Abs(d[1]) # Abs(d[2])
              /\ OnBoard(coordinate.x + d[1], coordinate.y + d[2])
              /\ (IsInstance(destination, "EmptyCell") \/ destination.color # color)
           THEN <<Move(coordinate, current, "none")>>
           ELSE <<>>])

\* Pawn.promotion_figures
promotion_figures == <<"q", "r", "b", "n">>

\* The moves a pawn appends for one target: one per promotion figure on the
\* promotion rank, otherwise the plain move.
pawn_moves_to(color, coordinate, current) ==
    LET promotion_y == IF color = "w" THEN 6 ELSE 1
    IN IF coordinate.y = promotion_y
       THEN [i \in 1..Len(promotion_figures) |-> Move(coordinate, current, promotion_figures[i])]
       ELSE <<Move(coordinate, current, "none")>>

\* Pawn._simple_moves
pawn_simple_moves(color, coordinate, position) ==
    LET factor_y == IF color = "w" THEN 1 ELSE -1
        one == delta(coordinate, 0, 1 * factor_y)
        two == delta(coordinate, 0, 2 * factor_y)
        jump == IF /\ (color = "w" /\ coordinate.y = 1) \/ (color = "b" /\ coordinate.y = 6)
                   /\ IsInstance(Cell(position.board, one), "EmptyCell")
                   /\ IsInstance(Cell(position.board, two), "EmptyCell")
                THEN <<Move(coordinate, two, "none")>>
                ELSE <<>>
        step == IF IsInstance(Cell(position.board, one), "EmptyCell")
                THEN pawn_moves_to(color, coordinate, one)
                ELSE <<>>
    IN jump \o step

\* Pawn._take_moves
pawn_take_moves(color, coordinate, position) ==
    LET factor_y == IF color = "w" THEN 1 ELSE -1
        dxs == <<-1, 1>>
    IN ConcatAll([i \in 1..2 |->
        LET current == delta(coordinate, dxs[i], 1 * factor_y)
            destination == Cell(position.board, current)
        IN IF /\ OnBoard(coordinate.x + dxs[i], coordinate.y)
              /\ \/ (position.en_passant # NoCoordinate /\ position.en_passant = current)
                 \/ (IsInstance(destination, "Figure") /\ destination.color # color)
           THEN pawn_moves_to(color, coordinate, current)
           ELSE <<>>])

\* Pawn.available_moves
pawn_available_moves(color, coordinate, position) ==
    pawn_simple_moves(color, coordinate, position)
        \o pawn_take_moves(color, coordinate, position)

\* cell.available_moves(coordinate, position), by the figure's class
available_moves(cell, coordinate, position) ==
    CASE cell.kind = "k" -> king_available_moves(cell.color, coordinate, position)
      [] cell.kind = "q" -> queen_available_moves(cell.color, coordinate, position)
      [] cell.kind = "r" -> parallel_moves(cell.color, coordinate, position)
      [] cell.kind = "b" -> diagonal_moves(cell.color, coordinate, position)
      [] cell.kind = "n" -> knight_available_moves(cell.color, coordinate, position)
      [] cell.kind = "p" -> pawn_available_moves(cell.color, coordinate, position)

(***************************************************************************)
(* analyzer.py: candidate moves, the legality filter and the evaluator     *)
(***************************************************************************)

\* Analyzer._candidate_moves
candidate_moves(position) ==
    ConcatAll([i \in 1..64 |->
        LET coordinate == Coordinate((i - 1) \div 8, (i - 1) % 8)
            cell == Cell(position.board, coordinate)
        IN IF IsInstance(cell, "Figure") /\ cell.color = position.turn
           THEN available_moves(cell, coordinate, position)
           ELSE <<>>])

\* Analyzer._check_check
check_check(opponents_position, opponents_candidate_moves) ==
    \E i \in 1..Len(opponents_candidate_moves) :
        LET destination == Cell(opponents_position.board, opponents_candidate_moves[i].finish)
        IN IsInstance(destination, "King") /\ destination.color # opponents_position.turn

\* The loop of Analyzer._check_attack: some move of the list ends on the
\* coordinate.
reaches(opponents_candidate_moves, coordinate) ==
    \E i \in 1..Len(opponents_candidate_moves) :
        opponents_candidate_moves[i].finish = coordinate

\* Analyzer._check_attack
check_attack(position, coordinate) ==
    reaches(candidate_moves(move(deepcopy(position), EmptyMove)), coordinate)

\* _check_check of a position and of its own candidate moves, as
\* _filter_checks and _estimate call it.
gives_check(opponents_position) ==
    check_check(opponents_position, candidate_moves(opponents_position))

\* A variant of passes_check_filter: the check is looked for in the position
\* before the move.
passes_check_filter_BeforeMove(position, m) ==
    ~gives_check(move(deepcopy(position), EmptyMove))

\* The test of Analyzer._filter_checks for one move.
passes_check_filter(position, m) ==
    ~gives_check(move(deepcopy(position), m))

\* A variant of filter_checks: every move is kept.
filter_checks_KeepsAll(position, moves) == moves

\* Analyzer._filter_checks
filter_checks(position, moves) ==
    ConcatAll([i \in 1..Len(moves) |->
        IF passes_check_filter(position, moves[i]) THEN <<moves[i]>> ELSE <<>>])

\* A variant of passes_castling_filter: only the king's start square is
\* tested for an attack.
passes_castling_filter_StartOnly(position, m) ==
    LET start == m.start
        figure == Cell(position.board, start)
    IN IF is_short_castling(m, figure) \/ is_long_castling(m, figure)
       THEN LET delta_y == IF position.turn = "w" THEN 1 ELSE -1
                delta_x == IF is_short_castling(m, figure) THEN 1 ELSE -1
            IN /\ \A factor_x \in 0..3 :
                     LET cell == Cell(position.board, delta(start, delta_x * factor_x, delta_y))
                     IN ~(IsInstance(cell, "Pawn") /\ cell.color # position.turn)
               /\ ~check_attack(position, start)
       ELSE TRUE

\* The test of Analyzer._filter_castlings for one move.
passes_castling_filter(position, m) ==
    LET start == m.start
        figure == Cell(position.board, start)
    IN IF is_short_castling(m, figure) \/ is_long_castling(m, figure)
       THEN LET delta_y == IF position.turn = "w" THEN 1 ELSE -1
                delta_x == IF is_short_castling(m, figure) THEN 1 ELSE -1
            IN /\ \A factor_x \in 0..3 :
                     LET cell == Cell(position.board, delta(start, delta_x * factor_x, delta_y))
                     IN ~(IsInstance(cell, "Pawn") /\ cell.color # position.turn)
               /\ ~(check_attack(position, start)
                      \/ check_attack(position, delta(start, delta_x, 0)))
       ELSE TRUE

\* Analyzer._filter_castlings
filter_castlings(position, moves) ==
    ConcatAll([i \in 1..Len(moves) |->
        IF passes_castling_filter(position, moves[i]) THEN <<moves[i]>> ELSE <<>>])

\* Analyzer._filter_illegal_moves
filter_illegal_moves(position, moves) ==
    filter_castlings(position, filter_checks(position, moves))


\* Figure.worth of each class, in units (Decimal('1') is 1).
worth(cell) ==
    CASE cell.kind = "k" -> 300
      [] cell.kind = "q" -> 9
      [] cell.kind = "r" -> 5
      [] cell.kind = "b" -> 3
      [] cell.kind = "n" -> 3
      [] cell.kind = "p" -> 1

RECURSIVE SumSeq(_)
SumSeq(xs) == IF Len(xs) = 0 THEN 0 ELSE Head(xs) + SumSeq(Tail(xs))

\* Analyzer._count_figures
count_figures(position) ==
    LET Worths(color_is_mover) ==
            [i \in 1..64 |->
                LET cell == position.board[(i - 1) \div 8][(i - 1) % 8]
                IN IF IsInstance(cell, "Figure") /\ ((cell.color = position.turn) = color_is_mover)
                   THEN worth(cell)
                   ELSE 0]
    IN [current_player |-> SumSeq(Worths(TRUE)), opponent |-> SumSeq(Worths(FALSE))]

\* Decimal('-300'), the grade of a mated mover, in hundredths.
MateGrade == -30000

\* The body of Analyzer._estimate after opponents_position is computed, in
\* hundredths.
estimate_against(position, available, opponents_position) ==
    IF Len(available) = 0
    THEN IF gives_check(opponents_position)
         THEN MateGrade
         ELSE 0
    ELSE (count_figures(position).current_player - count_figures(position).opponent) * 100
             + (Len(available)
                  - Len(filter_illegal_moves(opponents_position,
                                             candidate_moves(opponents_position))))

\* A variant of estimate: the opponent's position keeps the en-passant
\* target.
estimate_KeepsTarget(position, available) ==
    estimate_against(position, available,
                     [position EXCEPT !.turn = switch_turn(position.turn)])

\* Analyzer._estimate, in hundredths: the opponent's position is the position
\* after an EmptyMove.
estimate(position, available) ==
    estimate_against(position, available, move(deepcopy(position), EmptyMove))

(***************************************************************************)
(* analyzer.py: the tree of moves.  A tree is a record [nodes, levels]:    *)
(* nodes is the arena of node objects, each [move, parent, grade,          *)
(* children], with parent 0 for a RootMoveNode; levels is                  *)
(* TreeOfMoves._levels, each level a list of node ids.                     *)
(***************************************************************************)

\* INFINITY = Decimal('1e18'), scaled to fit the checker's integers; like the
\* source's value it exceeds every grade the evaluator can produce.
INFINITY == 1000000000

RECURSIVE MaxSeq(_)
\* max(...) of a non-empty list
MaxSeq(xs) ==
    IF Len(xs) = 1 THEN xs[1] ELSE Max2(Head(xs), MaxSeq(Tail(xs)))

\* A variant of best_grade: the negated largest child grade.
best_grade_NegatedMax(nodes, n) ==
    -MaxSeq([i \in 1..Len(nodes[n].children) |-> nodes[nodes[n].children[i]].grade])

\* The value RootMoveNode._update_grade assigns: max(-child.grade ...).
best_grade(nodes, n) ==
    MaxSeq([i \in 1..Len(nodes[n].children) |-> -nodes[nodes[n].children[i]].grade])

\* A variant of update_grade: the node's grade is recomputed and no
\* ancestor's.
update_grade_StopsAtParent(nodes, n) ==
    [nodes EXCEPT ![n].grade = best_grade(nodes, n)]

RECURSIVE update_grade(_, _)
\* RootMoveNode._update_grade, and MoveNode._update_grade which goes on to
\* the parent when the grade changed.
update_grade(nodes, n) ==
    LET old_grade == nodes[n].grade
        new_grade == best_grade(nodes, n)
        nodes1 == [nodes EXCEPT ![n].grade = new_grade]
    IN IF nodes[n].parent # 0 /\ new_grade # old_grade
       THEN update_grade(nodes1, nodes[n].parent)
       ELSE nodes1

\* RootMoveNode.__init__
RootMoveNode(m, grade) == [move |-> m, parent |-> 0, grade |-> grade, children |-> <<>>]

\* MoveNode.__init__: the new node is the last of the arena.
MoveNode(nodes, m, parent, grade) ==
    LET id == Len(nodes) + 1
        nodes1 == Append(nodes, [move |-> m, parent |-> parent, grade |-> grade,
                                 children |-> <<>>])
        nodes2 == [nodes1 EXCEPT ![parent].children = Append(@, id)]
    IN update_grade(nodes2, parent)

\* A variant of set_grade: the setter of RootMoveNode for every node, which
\* leaves the parent as it is.
set_grade_KeepsParent(nodes, n, value) == [nodes EXCEPT ![n].grade = value]

\* The grade setter: RootMoveNode.grade for a root node, MoveNode.grade
\* (which updates the parent) for the others.
set_grade(nodes, n, value) ==
    LET nodes1 == [nodes EXCEPT ![n].grade = value]
    IN IF nodes[n].parent # 0 THEN update_grade(nodes1, nodes[n].parent) ELSE nodes1

RECURSIVE moves_chain(_, _)
\* RootMoveNode.moves_chain / MoveNode.moves_chain
moves_chain(nodes, n) ==
    IF nodes[n].parent = 0 THEN <<nodes[n].move>>
    ELSE Append(moves_chain(nodes, nodes[n].parent), nodes[n].move)

\* TreeOfMoves.__init__
TreeOfMoves(root_moves) ==
    [nodes |-> [i \in 1..Len(root_moves) |-> RootMoveNode(root_moves[i], 0)],
     levels |-> << [i \in 1..Len(root_moves) |-> i] >>]

\* TreeOfMoves.add_level
add_level(tree) == [tree EXCEPT !.levels = Append(@, <<>>)]

\* TreeOfMoves.add_node
add_node(tree, id) == [tree EXCEPT !.levels[Len(tree.levels)] = Append(@, id)]

\* A variant of best_moves: the best nodes of the whole tree, not of its
\* first level.
best_moves_AnyNode(tree) ==
    LET all == [i \in 1..Len(tree.nodes) |-> i]
        max_grade == MaxSeq([i \in 1..Len(all) |-> -tree.nodes[all[i]].grade])
        Best(id) == -tree.nodes[id].grade = max_grade
        ids == SelectSeq(all, Best)
    IN [i \in 1..Len(ids) |-> tree.nodes[ids[i]].move]

\* A variant of best_moves: the root moves of the largest grade, not of the
\* largest negated grade.
best_moves_LargestGrade(tree) ==
    LET roots == tree.levels[1]
        max_grade == MaxSeq([i \in 1..Len(roots) |-> tree.nodes[roots[i]].grade])
        Best(id) == tree.nodes[id].grade = max_grade
        ids == SelectSeq(roots, Best)
    IN [i \in 1..Len(ids) |-> tree.nodes[ids[i]].move]

\* TreeOfMoves.best_move: the list `best_moves` that choice() draws from.
best_moves(tree) ==
    LET roots == tree.levels[1]
        max_grade == MaxSeq([i \in 1..Len(roots) |-> -tree.nodes[roots[i]].grade])
        Best(id) == -tree.nodes[id].grade = max_grade
        ids == SelectSeq(roots, Best)
    IN [i \in 1..Len(ids) |-> tree.nodes[ids[i]].move]

RECURSIVE replay(_, _)
\* The loop of _estimation_thread_target that applies a moves chain.
replay(position, chain) ==
    IF Len(chain) = 0 THEN position ELSE replay(move(position, Head(chain)), Tail(chain))

\* Position.from_fen of a decoded record, for the positions this model starts
\* from: cells is a set of <<x, y, kind, color>>.
PositionOf(cells, turn, rights, en_passant) ==
    [board |-> [x \in 0..7 |-> [y \in 0..7 |->
                  IF \E c \in cells : c[1] = x /\ c[2] = y
                  THEN LET c == CHOOSE c \in cells : c[1] = x /\ c[2] = y
                       IN Figure(c[3], c[4])
                  ELSE EmptyCell]],
     turn |-> turn,
     castling |-> [c \in {"w", "b"} |-> [s \in {"k", "q"} |-> <<c, s>> \in rights]],
     en_passant |-> en_passant,
     number_of_reversible_moves |-> 0,
     move_number |-> 0]


(***************************************************************************)
(* The state                                                               *)
(***************************************************************************)

VARIABLES
    position,     \* Analyzer._position
    ready,        \* Analyzer._ready
    best_move,    \* Analyzer._best_move
    workers,      \* the estimation threads started so far, oldest first:
                  \* each one's locals (tree, max_depth, depth, at, index, ...)
    pc,           \* where each estimation thread is in _estimation_thread_target
    caller,       \* the thread that calls go: [pc, depth]
    goes,         \* the number of go calls that have returned
    last_call,    \* the last Analyzer method called: "none", "go" or "stop"
    game,         \* a Position that moves are applied to (Position.move)
    previous,     \* the value of game before the last applied move
    applied,      \* the last move applied to game, as a one-item list
    legal,        \* the candidate and the legal moves listed for game
    plies,        \* the number of moves applied to game
    played,       \* the moves applied to game, oldest first, each with the
                  \* side that was to move
    heap,         \* the Position objects with their Board and castling dict
                  \* objects: [boards, dicts, positions], an object's id its
                  \* place in its list
    probe,        \* the local opponents_position: [opponents_position, moves],
                  \* the id of the Position object (0: none) and the number
                  \* of moves applied to it
    input,        \* the argument of the last call of a constructor:
                  \* [kind, text], kind "fen" for Position.from_fen with the
                  \* fields of a FEN, "move" for Move with a move text,
                  \* "pair" for Coordinate with <<x, y>>, "delta" for
                  \* Coordinate.delta with <<the coordinate, x, y>>,
                  \* "estimate" for Analyzer._estimate with <<the position,
                  \* its legal moves>>, "scan" for one turn of the for loop
                  \* of _delta_moves with <<coordinate, delta>>
    output        \* what the call made of it: [decoded, raised, value];
                  \* for a scan, decoded is false until the while loop is
                  \* left and value is [current, moves]

analyzer_vars == <<position, ready, best_move, workers, pc, caller, goes, last_call>>

game_vars == <<game, previous, applied, legal, plies, played>>

object_vars == <<heap, probe>>

decoder_vars == <<input, output>>

vars == <<position, ready, best_move, workers, pc, caller, goes, last_call,
          game, previous, applied, legal, plies, played, heap, probe,
          input, output>>

(***************************************************************************)
(* Bounds and the positions the model starts from                          *)
(***************************************************************************)

\* go is called at most MaxGo times.
MaxGo == 2

\* The depths of the go calls of one behaviour add up to at most MaxDepth
\* full moves.
MaxDepth == 2

\* At most MaxPly moves are applied to game.
MaxPly == 2

\* 7k/7p/7P/4p3/8/p3P3/P7/K7 w - - : two legal moves, a1b1 and e3e4.
LockedPawns ==
    PositionOf({<<0, 0, "k", "w">>, <<0, 1, "p", "w">>, <<0, 2, "p", "b">>,
                <<4, 2, "p", "w">>, <<4, 4, "p", "b">>, <<7, 5, "p", "w">>,
                <<7, 6, "p", "b">>, <<7, 7, "k", "b">>},
               "w", {}, NoCoordinate)

\* k7/P7/1K6/8/8/8/8/8 b - - : Black has no legal move (stalemate).
Stalemate ==
    PositionOf({<<0, 7, "k", "b">>, <<0, 6, "p", "w">>, <<1, 5, "k", "w">>},
               "b", {}, NoCoordinate)

\* 7k/8/8/8/8/8/PP6/K6r w - - : White is checkmated.
Checkmate ==
    PositionOf({<<0, 0, "k", "w">>, <<0, 1, "p", "w">>, <<1, 1, "p", "w">>,
                <<7, 0, "r", "b">>, <<7, 7, "k", "b">>},
               "w", {}, NoCoordinate)

AnalyzerPositions == {LockedPawns, Stalemate, Checkmate}

(***************************************************************************)
(* analyzer.py: Analyzer.go, Analyzer.stop and the estimation thread       *)
(***************************************************************************)

\* Analyzer.__init__
AnalyzerInit ==
    /\ position \in AnalyzerPositions
    /\ ready = TRUE
    /\ best_move = EmptyMove
    /\ workers = <<>>
    /\ pc = <<>>
    /\ caller = [pc |-> "idle", depth |-> 0]
    /\ goes = 0
    /\ last_call = "none"

\* The list go computes: the legal moves of the Analyzer's position.
root_moves(p) == filter_illegal_moves(p, candidate_moves(p))

\* The thread _chosee_best_move starts: the locals of
\* _estimation_thread_target at its first statement.
NewWorker(moves, max_depth) ==
    [tree |-> TreeOfMoves(moves), max_depth |-> max_depth, depth |-> 0,
     at |-> 1, index |-> 0, available |-> <<>>, spawned |-> 0]

\* The full moves of depth the searches started so far were given.
DepthUsed == SumSeq([k \in 1..Len(workers) |-> workers[k].max_depth \div 2])

\* Analyzer.go, its first statement: self._ready = False
GoBegin(depth) ==
    /\ caller.pc = "idle"
    /\ goes < MaxGo
    /\ DepthUsed + depth <= MaxDepth
    /\ ready' = FALSE
    /\ caller' = [pc |-> "go", depth |-> depth]
    /\ last_call' = "go"
    /\ UNCHANGED <<position, best_move, workers, pc, goes>>

\* A variant of GoEnd: depth 0 is not told apart from the other depths.
GoEnd_DepthZeroSearches ==
    /\ caller.pc = "go"
    /\ \E available \in {root_moves(position)} :
          IF Len(available) = 0
          THEN /\ best_move' = EmptyMove
               /\ ready' = TRUE
               /\ UNCHANGED <<workers, pc>>
          ELSE /\ \E i \in 1..Len(available) : best_move' = available[i]
               /\ workers' = Append(workers, NewWorker(available, caller.depth * 2))
               /\ pc' = Append(pc, "level")
               /\ UNCHANGED ready
    /\ caller' = [caller EXCEPT !.pc = "idle"]
    /\ goes' = goes + 1
    /\ UNCHANGED <<position, last_call>>

\* A variant of GoEnd: without legal moves, _ready is left as go's first
\* statement set it.
GoEnd_NoMovesLeavesFlag ==
    /\ caller.pc = "go"
    /\ \E available \in {root_moves(position)} :
          IF Len(available) = 0
          THEN /\ best_move' = EmptyMove
               /\ UNCHANGED <<ready, workers, pc>>
          ELSE IF caller.depth = 0
          THEN /\ \E i \in 1..Len(available) : best_move' = available[i]
               /\ ready' = TRUE
               /\ UNCHANGED <<workers, pc>>
          ELSE /\ \E i \in 1..Len(available) : best_move' = available[i]
               /\ workers' = Append(workers, NewWorker(available, caller.depth * 2))
               /\ pc' = Append(pc, "level")
               /\ UNCHANGED ready
    /\ caller' = [caller EXCEPT !.pc = "idle"]
    /\ goes' = goes + 1
    /\ UNCHANGED <<position, last_call>>

\* A variant of GoEnd, for depth >= 1 and a position with legal moves: go
\* calls _chosee_best_move first and writes the provisional best move in a
\* later step.  Between the two steps caller.depth is negated.
GoEnd_StartsThreadFirst ==
    /\ caller.pc = "go"
    /\ \E available \in {root_moves(position)} :
          IF Len(available) = 0 \/ caller.depth = 0
          THEN FALSE
          ELSE IF caller.depth > 0
          THEN /\ workers' = Append(workers, NewWorker(available, caller.depth * 2))
               /\ pc' = Append(pc, "level")
               /\ caller' = [caller EXCEPT !.depth = 0 - caller.depth]
               /\ UNCHANGED <<best_move, goes>>
          ELSE /\ \E i \in 1..Len(available) : best_move' = available[i]
               /\ caller' = [caller EXCEPT !.pc = "idle"]
               /\ goes' = goes + 1
               /\ UNCHANGED <<workers, pc>>
    /\ UNCHANGED <<position, ready, last_call>>

\* Analyzer.go, the rest: the legal moves, the provisional best move and,
\* for depth >= 1, _chosee_best_move.
GoEnd ==
    /\ caller.pc = "go"
    /\ \E available \in {root_moves(position)} :
          IF Len(available) = 0
          THEN /\ best_move' = EmptyMove
               /\ ready' = TRUE
               /\ UNCHANGED <<workers, pc>>
          ELSE IF caller.depth = 0
          THEN /\ \E i \in 1..Len(available) : best_move' = available[i]
               /\ ready' = TRUE
               /\ UNCHANGED <<workers, pc>>
          ELSE /\ \E i \in 1..Len(available) : best_move' = available[i]
               /\ workers' = Append(workers, NewWorker(available, caller.depth * 2))
               /\ pc' = Append(pc, "level")
               /\ UNCHANGED ready
    /\ caller' = [caller EXCEPT !.pc = "idle"]
    /\ goes' = goes + 1
    /\ UNCHANGED <<position, last_call>>

\* Analyzer.stop.  The caller's thread calls it between go calls; the
\* monitoring thread that uci.py starts after a go calls it at any later time.
Stop ==
    /\ caller.pc = "idle" \/ goes >= 1
    /\ ready' = TRUE
    /\ last_call' = IF caller.pc = "idle" THEN "stop" ELSE last_call
    /\ UNCHANGED <<position, best_move, workers, pc, caller, goes>>

\* The node the worker's inner loop is at.
CurrentNode(w) == w.tree.levels[w.depth + 1][w.at]

\* The worker's locals after the inner loop ends or breaks: the next depth.
NextLevel(w) == [w EXCEPT !.depth = w.depth + 1, !.at = 1]

\* A variant of WorkerLevel: at the end of the range the thread returns
\* without the two statements that follow the loops.
WorkerLevel_ReturnsAtEnd(k) ==
    LET w == workers[k]
    IN /\ pc[k] = "level"
       /\ IF w.depth = w.max_depth
          THEN /\ pc' = [pc EXCEPT ![k] = "done"]
               /\ UNCHANGED workers
          ELSE IF ready \/ Len(w.tree.levels[w.depth + 1]) = 0
          THEN /\ pc' = [pc EXCEPT ![k] = "final"]
               /\ UNCHANGED workers
          ELSE /\ pc' = [pc EXCEPT ![k] = "node"]
               /\ workers' = [workers EXCEPT ![k] =
                    IF w.depth # w.max_depth - 1
                    THEN [w EXCEPT !.tree = add_level(w.tree)]
                    ELSE w]
       /\ UNCHANGED <<position, ready, best_move, caller, goes, last_call>>

\* _estimation_thread_target, the head of the outer loop: the end of the
\* range, the break on _ready or on an empty level, and add_level.
WorkerLevel(k) ==
    LET w == workers[k]
    IN /\ pc[k] = "level"
       /\ IF w.depth = w.max_depth \/ ready \/ Len(w.tree.levels[w.depth + 1]) = 0
          THEN /\ pc' = [pc EXCEPT ![k] = "final"]
               /\ UNCHANGED workers
          ELSE /\ pc' = [pc EXCEPT ![k] = "node"]
               /\ workers' = [workers EXCEPT ![k] =
                    IF w.depth # w.max_depth - 1
                    THEN [w EXCEPT !.tree = add_level(w.tree)]
                    ELSE w]
       /\ UNCHANGED <<position, ready, best_move, caller, goes, last_call>>

\* The head of the inner loop: the next node of the level, the replay of
\* its moves chain, the break on _ready, and the node's legal moves.
WorkerNode(k) ==
    LET w == workers[k]
    IN /\ pc[k] = "node"
       /\ IF w.at > Len(w.tree.levels[w.depth + 1]) \/ ready
          THEN /\ workers' = [workers EXCEPT ![k] = NextLevel(w)]
               /\ pc' = [pc EXCEPT ![k] = "level"]
          ELSE \E opponents_position \in
                      {replay(deepcopy(position),
                              moves_chain(w.tree.nodes, CurrentNode(w)))} :
               \E opponents_available_moves \in
                      {filter_illegal_moves(opponents_position,
                                            candidate_moves(opponents_position))} :
                  /\ workers' = [workers EXCEPT ![k] =
                        [w EXCEPT !.available = opponents_available_moves,
                                  !.spawned = 0]]
                  /\ pc' = [pc EXCEPT ![k] =
                        IF w.depth # w.max_depth - 1
                           /\ Len(opponents_available_moves) > 0
                        THEN "spawn" ELSE "grade"]
       /\ UNCHANGED <<position, ready, best_move, caller, goes, last_call>>

\* A variant of WorkerSpawn: the children are created under the first node of
\* the level.
WorkerSpawn_UnderFirstNode(k) ==
    LET w == workers[k]
    IN /\ pc[k] = "spawn"
       /\ \E nodes1 \in {MoveNode(w.tree.nodes, w.available[w.spawned + 1],
                                  w.tree.levels[w.depth + 1][1], INFINITY)} :
             workers' = [workers EXCEPT ![k] =
                [w EXCEPT !.tree = add_node([w.tree EXCEPT !.nodes = nodes1], Len(nodes1)),
                          !.spawned = w.spawned + 1]]
       /\ pc' = [pc EXCEPT ![k] =
            IF w.spawned + 1 = Len(w.available) THEN "grade" ELSE "spawn"]
       /\ UNCHANGED <<position, ready, best_move, caller, goes, last_call>>

\* One turn of the loop that creates the children: MoveNode(available_move,
\* move_node, INFINITY) and add_node.
WorkerSpawn(k) ==
    LET w == workers[k]
    IN /\ pc[k] = "spawn"
       /\ \E nodes1 \in {MoveNode(w.tree.nodes, w.available[w.spawned + 1],
                                  CurrentNode(w), INFINITY)} :
             workers' = [workers EXCEPT ![k] =
                [w EXCEPT !.tree = add_node([w.tree EXCEPT !.nodes = nodes1], Len(nodes1)),
                          !.spawned = w.spawned + 1]]
       /\ pc' = [pc EXCEPT ![k] =
            IF w.spawned + 1 = Len(w.available) THEN "grade" ELSE "spawn"]
       /\ UNCHANGED <<position, ready, best_move, caller, goes, last_call>>

\* move_node.grade = self._estimate(opponents_position, opponents_available_moves)
WorkerGrade(k) ==
    LET w == workers[k]
    IN /\ pc[k] = "grade"
       /\ \E opponents_position \in
                {replay(deepcopy(position), moves_chain(w.tree.nodes, CurrentNode(w)))} :
             workers' = [workers EXCEPT ![k] =
                [w EXCEPT !.tree.nodes =
                    set_grade(w.tree.nodes, CurrentNode(w),
                              estimate(opponents_position, w.available))]]
       /\ pc' = [pc EXCEPT ![k] = "publish"]
       /\ UNCHANGED <<position, ready, best_move, caller, goes, last_call>>

\* if index % 10 == 0: self._best_move = tree_of_moves.best_move; index += 1
WorkerPublish(k) ==
    LET w == workers[k]
    IN /\ pc[k] = "publish"
       /\ IF w.index % 10 = 0
          THEN \E i \in 1..Len(best_moves(w.tree)) : best_move' = best_moves(w.tree)[i]
          ELSE UNCHANGED best_move
       /\ workers' = [workers EXCEPT ![k] = [w EXCEPT !.index = w.index + 1]]
       /\ pc' = [pc EXCEPT ![k] = "check"]
       /\ UNCHANGED <<position, ready, caller, goes, last_call>>

\* A variant of WorkerCheck: the inner loop's body ends without the break on
\* _ready.
WorkerCheck_IgnoresFlag(k) ==
    LET w == workers[k]
    IN /\ pc[k] = "check"
       /\ workers' = [workers EXCEPT ![k] = [w EXCEPT !.at = w.at + 1]]
       /\ pc' = [pc EXCEPT ![k] = "node"]
       /\ UNCHANGED <<position, ready, best_move, caller, goes, last_call>>

\* The break on _ready at the end of the inner loop's body.
WorkerCheck(k) ==
    LET w == workers[k]
    IN /\ pc[k] = "check"
       /\ IF ready
          THEN /\ workers' = [workers EXCEPT ![k] = NextLevel(w)]
               /\ pc' = [pc EXCEPT ![k] = "level"]
          ELSE /\ workers' = [workers EXCEPT ![k] = [w EXCEPT !.at = w.at + 1]]
               /\ pc' = [pc EXCEPT ![k] = "node"]
       /\ UNCHANGED <<position, ready, best_move, caller, goes, last_call>>

\* After the loops: self._best_move = tree_of_moves.best_move
WorkerFinalBest(k) ==
    LET w == workers[k]
    IN /\ pc[k] = "final"
       /\ \E i \in 1..Len(best_moves(w.tree)) : best_move' = best_moves(w.tree)[i]
       /\ pc' = [pc EXCEPT ![k] = "final_ready"]
       /\ UNCHANGED <<position, ready, workers, caller, goes, last_call>>

\* A variant of WorkerFinalReady: the thread ends with _ready = False.
WorkerFinalReady_ClearsFlag(k) ==
    /\ pc[k] = "final_ready"
    /\ ready' = FALSE
    /\ pc' = [pc EXCEPT ![k] = "done"]
    /\ UNCHANGED <<position, best_move, workers, caller, goes, last_call>>

\* After the loops: self._ready = True; the thread ends.
WorkerFinalReady(k) ==
    /\ pc[k] = "final_ready"
    /\ ready' = TRUE
    /\ pc' = [pc EXCEPT ![k] = "done"]
    /\ UNCHANGED <<position, best_move, workers, caller, goes, last_call>>

(***************************************************************************)
(* Objects.  Position.move changes the Position it is called on in place:  *)
(* the cells of its Board, the entries of its castling dict and its own    *)
(* attributes.  A heap is [boards, dicts, positions]: the cells of each     *)
(* Board object, the entries of each castling dict object, and for each    *)
(* Position object the ids of its Board and of its dict and its other      *)
(* attributes.                                                             *)
(***************************************************************************)

EmptyHeap == [boards |-> <<>>, dicts |-> <<>>, positions |-> <<>>]

\* The value of the Position object r: its attributes, with the cells of its
\* Board and the entries of its castling dict.
Deref(h, r) ==
    [board |-> h.boards[h.positions[r].board],
     turn |-> h.positions[r].turn,
     castling |-> h.dicts[h.positions[r].castling],
     en_passant |-> h.positions[r].en_passant,
     number_of_reversible_moves |-> h.positions[r].number_of_reversible_moves,
     move_number |-> h.positions[r].move_number]

\* Position.from_fen: a new Board, a new dict and a new Position holding
\* them; the new Position is the last of h.positions.
NewPosition(h, p) ==
    [boards |-> Append(h.boards, p.board),
     dicts |-> Append(h.dicts, p.castling),
     positions |-> Append(h.positions,
        [board |-> Len(h.boards) + 1,
         castling |-> Len(h.dicts) + 1,
         turn |-> p.turn,
         en_passant |-> p.en_passant,
         number_of_reversible_moves |-> p.number_of_reversible_moves,
         move_number |-> p.move_number])]

\* A variant of deepcopy_object: a new Position that holds the Board and the
\* dict of the Position it copies.
deepcopy_object_SharesParts(h, r) ==
    [h EXCEPT !.positions = Append(@, h.positions[r])]

\* Position.deepcopy of the Position object r: from_fen of its as_fen.
deepcopy_object(h, r) == NewPosition(h, from_fen(as_fen(Deref(h, r))).value)

\* The writes of Position.move through self, given the value they leave.
Written(h, r, p) ==
    [h EXCEPT !.boards[h.positions[r].board] = p.board,
              !.dicts[h.positions[r].castling] = p.castling,
              !.positions[r] = [@ EXCEPT
                  !.turn = p.turn,
                  !.en_passant = p.en_passant,
                  !.number_of_reversible_moves = p.number_of_reversible_moves,
                  !.move_number = p.move_number]]

\* Position.move called on the Position object r
move_object(h, r, m) == Written(h, r, move(Deref(h, r), m))

\* The objects that stay when the local opponents_position is given up: the
\* Analyzer's _position with its Board and its dict, the first of each list.
Kept(h) ==
    [boards |-> SubSeq(h.boards, 1, 1),
     dicts |-> SubSeq(h.dicts, 1, 1),
     positions |-> SubSeq(h.positions, 1, 1)]

\* No text is decoded.
NotDecoded == [decoded |-> FALSE, raised |-> "none", value |-> "no value"]

DecoderIdle ==
    /\ input = [kind |-> "none", text |-> <<>>]
    /\ output = NotDecoded

\* No object is modelled.
ObjectsIdle ==
    /\ heap = EmptyHeap
    /\ probe = [opponents_position |-> 0, moves |-> 0]

\* The value of legal before the moves of game have been listed.
NotListed == [listed |-> FALSE, candidates |-> <<>>, moves |-> <<>>]

\* The game variables take no part in the Analyzer's behaviours.
GameIdle ==
    /\ game = LockedPawns
    /\ previous = LockedPawns
    /\ applied = <<>>
    /\ legal = NotListed
    /\ plies = 0
    /\ played = <<>>

Init == AnalyzerInit /\ GameIdle /\ ObjectsIdle /\ DecoderIdle

Next ==
    \/ \E depth \in 0..MaxDepth : GoBegin(depth) /\ UNCHANGED <<game_vars, object_vars, decoder_vars>>
    \/ GoEnd /\ UNCHANGED <<game_vars, object_vars, decoder_vars>>
    \/ Stop /\ UNCHANGED <<game_vars, object_vars, decoder_vars>>
    \/ \E k \in 1..Len(workers) : WorkerLevel(k) /\ UNCHANGED <<game_vars, object_vars, decoder_vars>>
    \/ \E k \in 1..Len(workers) : WorkerNode(k) /\ UNCHANGED <<game_vars, object_vars, decoder_vars>>
    \/ \E k \in 1..Len(workers) : WorkerSpawn(k) /\ UNCHANGED <<game_vars, object_vars, decoder_vars>>
    \/ \E k \in 1..Len(workers) : WorkerGrade(k) /\ UNCHANGED <<game_vars, object_vars, decoder_vars>>
    \/ \E k \in 1..Len(workers) : WorkerPublish(k) /\ UNCHANGED <<game_vars, object_vars, decoder_vars>>
    \/ \E k \in 1..Len(workers) : WorkerCheck(k) /\ UNCHANGED <<game_vars, object_vars, decoder_vars>>
    \/ \E k \in 1..Len(workers) : WorkerFinalBest(k) /\ UNCHANGED <<game_vars, object_vars, decoder_vars>>
    \/ \E k \in 1..Len(workers) : WorkerFinalReady(k) /\ UNCHANGED <<game_vars, object_vars, decoder_vars>>

Spec == Init /\ [][Next]_vars


(***************************************************************************)
(* A game: moves listed by the legality filter and applied by              *)
(* Position.move, from a few small positions.                              *)
(***************************************************************************)

\* 4k2r/8/8/8/7r/8/8/RN2K3 w Qk - : both sides may still castle on one side;
\* the b1 knight stands between the white king and its rook, and the h4 rook
\* can reach the files the white king would cross.
CastlingRooks ==
    PositionOf({<<4, 0, "k", "w">>, <<0, 0, "r", "w">>, <<1, 0, "n", "w">>,
                <<4, 7, "k", "b">>, <<7, 7, "r", "b">>, <<7, 3, "r", "b">>},
               "w", {<<"w", "q">>, <<"b", "k">>}, NoCoordinate)

\* 4k3/8/8/8/1p6/8/P7/4K3 w - - : a2a4 lets Black capture en passant.
PawnRace ==
    PositionOf({<<4, 0, "k", "w">>, <<0, 1, "p", "w">>,
                <<4, 7, "k", "b">>, <<1, 3, "p", "b">>},
               "w", {}, NoCoordinate)

\* r3k3/1P6/8/8/8/8/8/4K3 w q - : the pawn promotes on b8 or takes the a8 rook.
PromotionCorner ==
    PositionOf({<<4, 0, "k", "w">>, <<1, 6, "p", "w">>,
                <<4, 7, "k", "b">>, <<0, 7, "r", "b">>},
               "w", {<<"b", "q">>}, NoCoordinate)

\* 4r2k/8/8/8/8/8/4R3/4K3 w - - : the e2 rook is pinned to its king.
PinnedRook ==
    PositionOf({<<4, 0, "k", "w">>, <<4, 1, "r", "w">>,
                <<4, 7, "r", "b">>, <<7, 7, "k", "b">>},
               "w", {}, NoCoordinate)

\* 4k3/8/8/8/8/8/6p1/4K2R w K - : a black pawn stands before the castling path.
PawnBeforeCastling ==
    PositionOf({<<4, 0, "k", "w">>, <<7, 0, "r", "w">>,
                <<4, 7, "k", "b">>, <<6, 1, "p", "b">>},
               "w", {<<"w", "k">>}, NoCoordinate)

\* STARTING_POSITION_FEN
STARTING_POSITION_FEN ==
    << <<"r", "n", "b", "q", "k", "b", "n", "r", "/",
         "p", "p", "p", "p", "p", "p", "p", "p", "/",
         "8", "/", "8", "/", "8", "/", "8", "/",
         "P", "P", "P", "P", "P", "P", "P", "P", "/",
         "R", "N", "B", "Q", "K", "B", "N", "R">>,
       "w", <<"K", "Q", "k", "q">>, <<"-">>, <<"0">>, <<"1">> >>

\* Position.starting_position
starting_position == from_fen(STARTING_POSITION_FEN).value

\* 4k3/8/8/8/8/8/8/4K2R w K - 98 57 : late in a game, both counters of two
\* digits and the half-move clock about to reach three.
LateEndgame ==
    from_fen(<< <<"4", "k", "3", "/", "8", "/", "8", "/", "8", "/", "8", "/",
                  "8", "/", "8", "/", "4", "K", "2", "R">>,
                "w", <<"K">>, <<"-">>, <<"9", "8">>, <<"5", "7">> >>).value

GamePositions ==
    {starting_position, LateEndgame,
     CastlingRooks, PawnRace, PromotionCorner, PinnedRook, PawnBeforeCastling}

GameInit ==
    /\ game \in GamePositions
    /\ previous = game
    /\ applied = <<>>
    /\ legal = NotListed
    /\ plies = 0
    /\ played = <<>>

\* The two lists go computes for a position: _candidate_moves, then
\* _filter_illegal_moves of them.
ListMoves ==
    /\ ~legal.listed
    /\ \E candidates \in {candidate_moves(game)} :
          legal' = [listed |-> TRUE, candidates |-> candidates,
                    moves |-> filter_illegal_moves(game, candidates)]
    /\ UNCHANGED <<game, previous, applied, plies, played>>

\* Position.move with one of the listed legal moves.
ApplyLegal(i) ==
    /\ legal.listed
    /\ plies < MaxPly
    /\ i \in 1..Len(legal.moves)
    /\ game' = move(game, legal.moves[i])
    /\ previous' = game
    /\ applied' = <<legal.moves[i]>>
    /\ legal' = NotListed
    /\ plies' = plies + 1
    /\ played' = Append(played, [turn |-> game.turn, move |-> legal.moves[i]])

\* Position.move(EmptyMove())
ApplyEmpty ==
    /\ plies < MaxPly
    /\ game' = move(game, EmptyMove)
    /\ previous' = game
    /\ applied' = <<EmptyMove>>
    /\ legal' = NotListed
    /\ plies' = plies + 1
    /\ played' = Append(played, [turn |-> game.turn, move |-> EmptyMove])

\* The Analyzer variables take no part in the game's behaviours.
AnalyzerIdle ==
    /\ position = LockedPawns
    /\ ready = TRUE
    /\ best_move = EmptyMove
    /\ workers = <<>>
    /\ pc = <<>>
    /\ caller = [pc |-> "idle", depth |-> 0]
    /\ goes = 0
    /\ last_call = "none"

PosInit == GameInit /\ AnalyzerIdle /\ ObjectsIdle /\ DecoderIdle

PosNext ==
    \/ ListMoves /\ UNCHANGED <<analyzer_vars, object_vars, decoder_vars>>
    \/ \E i \in 1..Len(legal.moves) : ApplyLegal(i) /\ UNCHANGED <<analyzer_vars, object_vars, decoder_vars>>
    \/ ApplyEmpty /\ UNCHANGED <<analyzer_vars, object_vars, decoder_vars>>

PosSpec == PosInit /\ [][PosNext]_vars


(***************************************************************************)
(* The Analyzer asked for a move without a search: go(0), on the starting  *)
(* position and on the positions of Spec.                                  *)
(***************************************************************************)

OpeningInit ==
    /\ position \in {starting_position} \cup AnalyzerPositions
    /\ ready = TRUE
    /\ best_move = EmptyMove
    /\ workers = <<>>
    /\ pc = <<>>
    /\ caller = [pc |-> "idle", depth |-> 0]
    /\ goes = 0
    /\ last_call = "none"
    /\ GameIdle
    /\ ObjectsIdle
    /\ DecoderIdle

OpeningNext ==
    \/ GoBegin(0) /\ UNCHANGED <<game_vars, object_vars, decoder_vars>>
    \/ GoEnd /\ UNCHANGED <<game_vars, object_vars, decoder_vars>>
    \/ Stop /\ UNCHANGED <<game_vars, object_vars, decoder_vars>>

OpeningSpec == OpeningInit /\ [][OpeningNext]_vars

(***************************************************************************)
(* The Analyzer's position as an object, and the copies that               *)
(* _check_attack, _filter_checks, _estimate and _estimation_thread_target  *)
(* make of it and move.                                                    *)
(***************************************************************************)

\* Analyzer.__init__: _position is a Position made by Position.from_fen.
ObjectsInit ==
    /\ position \in GamePositions
    /\ ready = TRUE
    /\ best_move = EmptyMove
    /\ workers = <<>>
    /\ pc = <<>>
    /\ caller = [pc |-> "idle", depth |-> 0]
    /\ goes = 0
    /\ last_call = "none"
    /\ GameIdle
    /\ heap = NewPosition(EmptyHeap, position)
    /\ probe = [opponents_position |-> 0, moves |-> 0]
    /\ DecoderIdle

\* opponents_position = position.deepcopy(): the copy made before is given up.
CopyPosition ==
    /\ heap' = deepcopy_object(Kept(heap), 1)
    /\ probe' = [opponents_position |-> Len(Kept(heap).positions) + 1, moves |-> 0]
    /\ UNCHANGED <<analyzer_vars, game_vars, decoder_vars>>

\* The candidate moves of the copy.
CopyMoves ==
    IF probe.opponents_position = 0 THEN <<>>
    ELSE candidate_moves(Deref(heap, probe.opponents_position))

\* opponents_position.move(move), with a candidate move of the copy: the move
\* _filter_checks tries, or the next of a moves chain.
MoveCopy(i) ==
    /\ probe.opponents_position # 0
    /\ probe.moves < MaxPly
    /\ i \in 1..Len(CopyMoves)
    /\ heap' = move_object(heap, probe.opponents_position, CopyMoves[i])
    /\ probe' = [probe EXCEPT !.moves = @ + 1]
    /\ UNCHANGED <<analyzer_vars, game_vars, decoder_vars>>

\* opponents_position.move(EmptyMove())
MoveCopyEmpty ==
    /\ probe.opponents_position # 0
    /\ probe.moves < MaxPly
    /\ heap' = move_object(heap, probe.opponents_position, EmptyMove)
    /\ probe' = [probe EXCEPT !.moves = @ + 1]
    /\ UNCHANGED <<analyzer_vars, game_vars, decoder_vars>>

ObjectsNext ==
    \/ CopyPosition
    \/ \E i \in 1..Len(CopyMoves) : MoveCopy(i)
    \/ MoveCopyEmpty

ObjectsSpec == ObjectsInit /\ [][ObjectsNext]_vars

\* ---------------------------------------------------------------------
\* Decoding of texts: Position.from_fen on the fields of a FEN whose board
\* field varies, and Move on a move text, as UCI._handle_position calls them.

\* The ranks of STARTING_POSITION_FEN, the 8th first.
StartingRanks ==
    << <<"r", "n", "b", "q", "k", "b", "n", "r">>,
       <<"p", "p", "p", "p", "p", "p", "p", "p">>,
       <<"8">>, <<"8">>, <<"8">>, <<"8">>,
       <<"P", "P", "P", "P", "P", "P", "P", "P">>,
       <<"R", "N", "B", "Q", "K", "B", "N", "R">> >>

\* '/'.join(ranks)
JoinRanks(ranks) ==
    ConcatAll([i \in 1..Len(ranks) |->
                   IF i = 1 THEN ranks[i] ELSE <<"/">> \o ranks[i]])

\* Texts a rank is replaced with: of 8 files, of fewer, of more, with a
\* symbol that is no figure and no count of empty cells.
RankTexts ==
    { <<"8">>, <<"4", "4">>, <<"P", "6", "P">>,
      <<"7">>, <<>>, <<"p", "6">>,
      <<"4", "5">>, <<"p", "8">>, <<"8", "p">>,
      <<"p", "p", "p", "p", "p", "p", "p", "p", "p">>,
      <<"9">>, <<"0">>, <<"x", "7">>, <<"7", "x">> }

BoardTexts ==
    { JoinRanks([StartingRanks EXCEPT ![i] = t]) : i \in 1..8, t \in RankTexts }
    \union { JoinRanks(SubSeq(StartingRanks, 1, 7)),
             JoinRanks(StartingRanks \o << <<"8">> >>),
             JoinRanks(StartingRanks \o << <<"Q", "7">> >>),
             JoinRanks(<< <<"8">> >>) }

FenTexts ==
    { <<b, "w", <<"K", "Q", "k", "q">>, <<"-">>, <<"0">>, <<"1">> >> :
        b \in BoardTexts }

FileSymbols == {"e", "i", "E"}

RankSymbols == {"2", "9", "0", "x"}

PromotionSymbols == {"q", "n", "x", "Q"}

MoveTexts ==
    { <<f, r, g, s>> : f \in FileSymbols, r \in RankSymbols,
                       g \in FileSymbols, s \in RankSymbols }
    \union { SubSeq(<<"e", "2", "e", "4">>, 1, n) : n \in 0..3 }
    \union { <<"e", "7", "e", "8", c>> : c \in PromotionSymbols }
    \union { <<"e", "7", "e", "8", "q", "q">> }

DecodeInit ==
    /\ AnalyzerIdle
    /\ GameIdle
    /\ ObjectsIdle
    /\ input \in { [kind |-> "fen", text |-> t] : t \in FenTexts }
                 \union { [kind |-> "move", text |-> t] : t \in MoveTexts }
    /\ output = NotDecoded

Decoded(result) ==
    [decoded |-> TRUE, raised |-> result.raised, value |-> result.value]

\* Position.from_fen(fen_position)
DecodeFen ==
    /\ input.kind = "fen"
    /\ ~output.decoded
    /\ output' = Decoded(from_fen(input.text))
    /\ UNCHANGED <<input, analyzer_vars, game_vars, object_vars>>

\* Move(text)
DecodeMove ==
    /\ input.kind = "move"
    /\ ~output.decoded
    /\ output' = Decoded(Move_of(input.text))
    /\ UNCHANGED <<input, analyzer_vars, game_vars, object_vars>>

DecodeNext == DecodeFen \/ DecodeMove

DecodeSpec == DecodeInit /\ [][DecodeNext]_vars

\* ---------------------------------------------------------------------
\* Coordinates: Coordinate(x, y) of a pair of integers, and Coordinate.delta
\* of what was constructed.

\* The integers given to Coordinate lie at most MaxOff outside 0..7.
MaxOff == 3

\* The arguments of delta are at most MaxDelta in size.
MaxDelta == 3

CoordinateInit ==
    /\ AnalyzerIdle
    /\ GameIdle
    /\ ObjectsIdle
    /\ input \in { [kind |-> "pair", text |-> <<x, y>>] :
                     x \in (0 - MaxOff)..(7 + MaxOff), y \in (0 - MaxOff)..(7 + MaxOff) }
    /\ output = NotDecoded

\* Coordinate(x, y)
Construct ==
    /\ input.kind = "pair"
    /\ ~output.decoded
    /\ output' = Decoded(Return(Coordinate(input.text[1], input.text[2])))
    /\ UNCHANGED <<input, analyzer_vars, game_vars, object_vars>>

\* coordinate.delta(x, y) of the Coordinate made last
Delta(x, y) ==
    /\ output.decoded
    /\ input' = [kind |-> "delta", text |-> <<output.value, x, y>>]
    /\ output' = Decoded(Return(delta(output.value, x, y)))
    /\ UNCHANGED <<analyzer_vars, game_vars, object_vars>>

CoordinateNext ==
    \/ Construct
    \/ \E x \in (0 - MaxDelta)..MaxDelta, y \in (0 - MaxDelta)..MaxDelta : Delta(x, y)

CoordinateSpec == CoordinateInit /\ [][CoordinateNext]_vars

\* ---------------------------------------------------------------------
\* A search of one full move from a position in which the side to move has
\* less material.

\* 7k/2p4p/7P/4p3/8/p3P3/P7/K7 w - - : LockedPawns with one more black pawn.
PawnDown ==
    PositionOf({<<0, 0, "k", "w">>, <<0, 1, "p", "w">>, <<0, 2, "p", "b">>,
                <<4, 2, "p", "w">>, <<4, 4, "p", "b">>, <<7, 5, "p", "w">>,
                <<7, 6, "p", "b">>, <<7, 7, "k", "b">>, <<2, 6, "p", "b">>},
               "w", {}, NoCoordinate)

ShortSearchInit ==
    /\ position = PawnDown
    /\ ready = TRUE
    /\ best_move = EmptyMove
    /\ workers = <<>>
    /\ pc = <<>>
    /\ caller = [pc |-> "idle", depth |-> 0]
    /\ goes = 0
    /\ last_call = "none"
    /\ GameIdle
    /\ ObjectsIdle
    /\ DecoderIdle

ShortSearchNext ==
    \/ GoBegin(1) /\ UNCHANGED <<game_vars, object_vars, decoder_vars>>
    \/ GoEnd /\ UNCHANGED <<game_vars, object_vars, decoder_vars>>
    \/ Stop /\ UNCHANGED <<game_vars, object_vars, decoder_vars>>
    \/ \E k \in 1..Len(workers) : WorkerLevel(k) /\ UNCHANGED <<game_vars, object_vars, decoder_vars>>
    \/ \E k \in 1..Len(workers) : WorkerNode(k) /\ UNCHANGED <<game_vars, object_vars, decoder_vars>>
    \/ \E k \in 1..Len(workers) : WorkerSpawn(k) /\ UNCHANGED <<game_vars, object_vars, decoder_vars>>
    \/ \E k \in 1..Len(workers) : WorkerGrade(k) /\ UNCHANGED <<game_vars, object_vars, decoder_vars>>
    \/ \E k \in 1..Len(workers) : WorkerPublish(k) /\ UNCHANGED <<game_vars, object_vars, decoder_vars>>
    \/ \E k \in 1..Len(workers) : WorkerCheck(k) /\ UNCHANGED <<game_vars, object_vars, decoder_vars>>
    \/ \E k \in 1..Len(workers) : WorkerFinalBest(k) /\ UNCHANGED <<game_vars, object_vars, decoder_vars>>
    \/ \E k \in 1..Len(workers) : WorkerFinalReady(k) /\ UNCHANGED <<game_vars, object_vars, decoder_vars>>

ShortSearchSpec == ShortSearchInit /\ [][ShortSearchNext]_vars

\* ---------------------------------------------------------------------
\* Searches that run to their end, from a position with two legal moves and
\* from one whose only legal move leaves the opponent without a move.

\* 7k/5P1p/7P/4p3/4P3/p7/P7/Kr6 w - - : White is in check, a1b1 is the only
\* legal move, and after it Black is stalemated.
LastCapture ==
    PositionOf({<<0, 0, "k", "w">>, <<1, 0, "r", "b">>, <<0, 1, "p", "w">>,
                <<0, 2, "p", "b">>, <<4, 3, "p", "w">>, <<4, 4, "p", "b">>,
                <<7, 5, "p", "w">>, <<5, 6, "p", "w">>, <<7, 6, "p", "b">>,
                <<7, 7, "k", "b">>},
               "w", {}, NoCoordinate)

EndingInit ==
    /\ position \in {LockedPawns, LastCapture}
    /\ ready = TRUE
    /\ best_move = EmptyMove
    /\ workers = <<>>
    /\ pc = <<>>
    /\ caller = [pc |-> "idle", depth |-> 0]
    /\ goes = 0
    /\ last_call = "none"
    /\ GameIdle
    /\ ObjectsIdle
    /\ DecoderIdle

\* ---------------------------------------------------------------------
\* The evaluator, called with a position of a game and the legal moves
\* listed for it.

\* 4k3/8/8/8/4P3/8/3P4/4K3 b - e3 : White has just played e2e4; were it
\* White's move with the target kept, d2 could move onto e3.
PushedPawn ==
    PositionOf({<<4, 0, "k", "w">>, <<3, 1, "p", "w">>, <<4, 3, "p", "w">>,
                <<4, 7, "k", "b">>},
               "b", {}, Coordinate(4, 2))

\* 2b1k3/8/8/8/8/8/8/1N1QK3 w - - : a knight, a queen and a bishop.
MixedMaterial ==
    PositionOf({<<1, 0, "n", "w">>, <<3, 0, "q", "w">>, <<4, 0, "k", "w">>,
                <<2, 7, "b", "b">>, <<4, 7, "k", "b">>},
               "w", {}, NoCoordinate)

EvaluatedPositions ==
    {MixedMaterial, CastlingRooks, PawnRace, PromotionCorner, PinnedRook,
     PawnBeforeCastling, PushedPawn, Stalemate, Checkmate}

EvaluateInit ==
    /\ game \in EvaluatedPositions
    /\ previous = game
    /\ applied = <<>>
    /\ legal = NotListed
    /\ plies = 0
    /\ played = <<>>
    /\ AnalyzerIdle
    /\ ObjectsIdle
    /\ DecoderIdle

\* Analyzer._estimate(position, available_moves), as the estimation thread
\* calls it: with a position and the legal moves listed for it.
Estimate ==
    /\ legal.listed
    /\ input' = [kind |-> "estimate", text |-> <<game, legal.moves>>]
    /\ output' = [decoded |-> TRUE, raised |-> "none",
                  value |-> estimate(game, legal.moves)]

EvaluateNext ==
    \/ ListMoves /\ UNCHANGED <<analyzer_vars, object_vars, decoder_vars>>
    \/ \E i \in 1..Len(legal.moves) : ApplyLegal(i) /\ UNCHANGED <<analyzer_vars, object_vars, decoder_vars>>
    \/ Estimate /\ UNCHANGED <<analyzer_vars, game_vars, object_vars>>

EvaluateSpec == EvaluateInit /\ [][EvaluateNext]_vars

\* ---------------------------------------------------------------------
\* Games from positions with pawns: pushes, captures, promotions, an
\* en-passant capture, and a position the decoder accepts with a pawn on
\* its far rank.

\* Pr2k3/8/8/8/8/8/8/4K3 w - - : a white pawn on a8 beside a black rook.
FarRankPawn ==
    PositionOf({<<4, 0, "k", "w">>, <<0, 7, "p", "w">>,
                <<1, 7, "r", "b">>, <<4, 7, "k", "b">>},
               "w", {}, NoCoordinate)

PawnInit ==
    /\ game \in {PawnRace, PromotionCorner, LockedPawns, FarRankPawn}
    /\ previous = game
    /\ applied = <<>>
    /\ legal = NotListed
    /\ plies = 0
    /\ played = <<>>
    /\ AnalyzerIdle
    /\ ObjectsIdle
    /\ DecoderIdle

PawnSpec == PawnInit /\ [][PosNext]_vars

\* ---------------------------------------------------------------------
\* The while loop of _delta_moves, one turn at a time, for the rooks, bishops
\* and queens of a few boards.

\* q3k2r/8/8/3b4/8/8/1P6/R3K2B w - - : sliding figures in three corners, on
\* an edge and in the middle of the board.
SlidersAtEdges ==
    PositionOf({<<0, 0, "r", "w">>, <<4, 0, "k", "w">>, <<7, 0, "b", "w">>,
                <<1, 1, "p", "w">>, <<3, 4, "b", "b">>, <<0, 7, "q", "b">>,
                <<4, 7, "k", "b">>, <<7, 7, "r", "b">>},
               "w", {}, NoCoordinate)

\* The deltas _parallel_moves, _diagonal_moves and Queen.available_moves
\* pass to _delta_moves.
SlidingDeltas(kind) ==
    CASE kind = "r" -> {<<-1, 0>>, <<1, 0>>, <<0, -1>>, <<0, 1>>}
      [] kind = "b" -> {<<-1, -1>>, <<-1, 1>>, <<1, -1>>, <<1, 1>>}
      [] kind = "q" -> {<<-1, 0>>, <<1, 0>>, <<0, -1>>, <<0, 1>>,
                        <<-1, -1>>, <<-1, 1>>, <<1, -1>>, <<1, 1>>}
      [] OTHER -> {}

\* _delta_moves is called for a rook, a bishop or a queen of the board; it
\* is at the head of its for loop, with the first of the deltas.
ScanInit ==
    /\ game \in {SlidersAtEdges, MixedMaterial, CastlingRooks, PinnedRook}
    /\ previous = game
    /\ applied = <<>>
    /\ legal = NotListed
    /\ plies = 0
    /\ played = <<>>
    /\ AnalyzerIdle
    /\ ObjectsIdle
    /\ \E x, y \in 0..7 :
          /\ game.board[x][y].kind \in {"r", "b", "q"}
          /\ input = [kind |-> "scan",
                      text |-> <<Coordinate(x, y),
                                 IF game.board[x][y].kind = "b"
                                 THEN <<-1, -1>> ELSE <<-1, 0>> >>]
          /\ output = [decoded |-> FALSE, raised |-> "none",
                       value |-> [current |-> Coordinate(x, y), moves |-> <<>>]]

\* for delta in deltas: current = coordinate
ScanBegin(x, y, d) ==
    /\ output.decoded
    /\ d \in SlidingDeltas(game.board[x][y].kind)
    /\ input' = [kind |-> "scan", text |-> <<Coordinate(x, y), d>>]
    /\ output' = [decoded |-> FALSE, raised |-> "none",
                  value |-> [current |-> Coordinate(x, y), moves |-> <<>>]]

\* A variant of ScanStep: the loop goes on after a figure.
ScanStep_PassesFigure ==
    /\ input.kind = "scan"
    /\ ~output.decoded
    /\ \E current \in {delta(output.value.current, input.text[2][1], input.text[2][2])} :
          IF \/ current.x - output.value.current.x # input.text[2][1]
             \/ current.y - output.value.current.y # input.text[2][2]
          THEN output' = [output EXCEPT !.decoded = TRUE]
          ELSE IF IsInstance(Cell(game.board, current), "EmptyCell")
                  \/ Cell(game.board, current).color
                         # Cell(game.board, input.text[1]).color
          THEN output' = [output EXCEPT
                  !.value = [current |-> current,
                             moves |-> Append(@.moves, Move(input.text[1], current, "none"))]]
          ELSE output' = [output EXCEPT !.value.current = current]
    /\ UNCHANGED input

\* One turn of the while loop: the next cell, the break at the edge of the
\* board, the move onto an empty cell or onto an opponent's figure, and the
\* break at a figure.
ScanStep ==
    /\ input.kind = "scan"
    /\ ~output.decoded
    /\ \E current \in {delta(output.value.current, input.text[2][1], input.text[2][2])} :
          IF \/ current.x - output.value.current.x # input.text[2][1]
             \/ current.y - output.value.current.y # input.text[2][2]
          THEN output' = [output EXCEPT !.decoded = TRUE]
          ELSE IF IsInstance(Cell(game.board, current), "EmptyCell")
          THEN output' = [output EXCEPT
                  !.value = [current |-> current,
                             moves |-> Append(@.moves, Move(input.text[1], current, "none"))]]
          ELSE IF Cell(game.board, current).color # Cell(game.board, input.text[1]).color
          THEN output' = [decoded |-> TRUE, raised |-> "none",
                          value |-> [current |-> current,
                                     moves |-> Append(output.value.moves,
                                                      Move(input.text[1], current, "none"))]]
          ELSE output' = [output EXCEPT !.decoded = TRUE, !.value.current = current]
    /\ UNCHANGED input

ScanNext ==
    \/ \E x, y \in 0..7 : \E d \in SlidingDeltas("q") :
          ScanBegin(x, y, d) /\ UNCHANGED <<analyzer_vars, game_vars, object_vars>>
    \/ ScanStep /\ UNCHANGED <<analyzer_vars, game_vars, object_vars>>

\* Where a scan is: the number of its current cell, 64 once the loop is
\* left.
ScanPlace ==
    IF output.decoded THEN 64
    ELSE 8 * output.value.current.x + output.value.current.y

\* A scan that has begun is run: every turn of the loop changes ScanPlace.
ScanSpec == ScanInit /\ [][ScanNext]_vars /\ WF_ScanPlace(ScanStep)

\* ---------------------------------------------------------------------
\* Games from a position in which both sides may castle on both sides.

\* r3k2r/8/8/8/8/8/8/R3K2R w KQkq - : kings and rooks on their home squares.
BothCastlings ==
    PositionOf({<<0, 0, "r", "w">>, <<4, 0, "k", "w">>, <<7, 0, "r", "w">>,
                <<0, 7, "r", "b">>, <<4, 7, "k", "b">>, <<7, 7, "r", "b">>},
               "w", {<<"w", "k">>, <<"w", "q">>, <<"b", "k">>, <<"b", "q">>},
               NoCoordinate)

CastlingInit ==
    /\ game \in {BothCastlings, CastlingRooks}
    /\ previous = game
    /\ applied = <<>>
    /\ legal = NotListed
    /\ plies = 0
    /\ played = <<>>
    /\ AnalyzerIdle
    /\ ObjectsIdle
    /\ DecoderIdle

CastlingSpec == CastlingInit /\ [][PosNext]_vars

\* ---------------------------------------------------------------------
\* Games with en-passant captures by either side.

\* 4k3/p7/8/1P6/8/8/8/4K3 b - - : a7a5 lets White capture en passant.
PawnRaceBlack ==
    PositionOf({<<4, 0, "k", "w">>, <<1, 4, "p", "w">>,
                <<4, 7, "k", "b">>, <<0, 6, "p", "b">>},
               "b", {}, NoCoordinate)

\* 4k3/8/8/8/1pP5/8/8/4K3 b - c3 : White has just played c2c4.
TargetGiven ==
    PositionOf({<<4, 0, "k", "w">>, <<2, 3, "p", "w">>,
                <<4, 7, "k", "b">>, <<1, 3, "p", "b">>},
               "b", {}, Coordinate(2, 2))

EnPassantInit ==
    /\ game \in {PawnRace, PawnRaceBlack, TargetGiven}
    /\ previous = game
    /\ applied = <<>>
    /\ legal = NotListed
    /\ plies = 0
    /\ played = <<>>
    /\ AnalyzerIdle
    /\ ObjectsIdle
    /\ DecoderIdle

EnPassantSpec == EnPassantInit /\ [][PosNext]_vars

\* ---------------------------------------------------------------------
\* Games from a position with queens on home corners and the rights of
\* those corners held.

\* q3k2r/8/8/8/8/8/8/Q3K2R w KQkq - : a queen of each color stands on its
\* queen-side home corner.
QueensOnCorners ==
    PositionOf({<<0, 0, "q", "w">>, <<4, 0, "k", "w">>, <<7, 0, "r", "w">>,
                <<0, 7, "q", "b">>, <<4, 7, "k", "b">>, <<7, 7, "r", "b">>},
               "w", {<<"w", "k">>, <<"w", "q">>, <<"b", "k">>, <<"b", "q">>},
               NoCoordinate)

CornerQueenInit ==
    /\ game \in {QueensOnCorners}
    /\ previous = game
    /\ applied = <<>>
    /\ legal = NotListed
    /\ plies = 0
    /\ played = <<>>
    /\ AnalyzerIdle
    /\ ObjectsIdle
    /\ DecoderIdle

CornerQueenSpec == CornerQueenInit /\ [][PosNext]_vars

\* The scheduler lets every call of go return and runs every started
\* thread: a step of go's caller changes caller, a step of the k-th
\* estimation thread changes pc[k].
GoReturns == caller.pc = "go" /\ caller' = [caller EXCEPT !.pc = "idle"]

ThreadLabels ==
    {"level", "node", "spawn", "grade", "publish", "check", "final", "final_ready", "done"}

ThreadRuns(k) ==
    /\ k <= Len(pc)
    /\ pc[k] # "done"
    /\ \E label \in ThreadLabels : pc' = [pc EXCEPT ![k] = label]

LiveSpec ==
    /\ Init
    /\ [][Next]_vars
    /\ WF_caller(GoReturns)
    /\ \A k \in 1..MaxGo : WF_pc(ThreadRuns(k))

\* The searches of EndingInit under the scheduler of LiveSpec.
EndingSpec ==
    /\ EndingInit
    /\ [][Next]_vars
    /\ WF_caller(GoReturns)
    /\ \A k \in 1..MaxGo : WF_pc(ThreadRuns(k))

(***************************************************************************)
(* Properties of the search tree and of the Analyzer                       *)
(***************************************************************************)

\* The k-th started thread has not returned yet.
Alive(k) == pc[k] # "done"

Children(nodes, n) == {nodes[n].children[i] : i \in 1..Len(nodes[n].children)}

\* The largest member of a non-empty finite set of integers.
MaxOf(S) == CHOOSE x \in S : \A y \in S : y <= x

\* A child no step of the worker has touched: created with INFINITY, not
\* yet visited.
Untouched(nodes, c) == nodes[c].grade = INFINITY /\ Len(nodes[c].children) = 0

\* What the evaluator returns for the position a node stands for.
NodeEstimate(nodes, n) ==
    LET p == replay(position, moves_chain(nodes, n))
    IN estimate(p, filter_illegal_moves(p, candidate_moves(p)))

\* C1 as stated: every node that has children has the grade
\* -max(child.grade for child in children), in every reachable state.
C1_GradeIsNegatedMaxChild ==
    \A k \in 1..Len(workers) :
        LET nodes == workers[k].tree.nodes
        IN \A n \in 1..Len(nodes) :
               Len(nodes[n].children) > 0
                   => nodes[n].grade = -MaxOf({nodes[c].grade : c \in Children(nodes, n)})

\* C1 as amended: every node that has children has the grade
\* max(-child.grade for child in children), except while none of its
\* children has been visited after the worker assigned the node its own
\* grade: then it holds the evaluator's value for its position.
C1_GradeIsMaxNegatedChild ==
    \A k \in 1..Len(workers) :
        LET nodes == workers[k].tree.nodes
        IN \A n \in 1..Len(nodes) :
               Len(nodes[n].children) > 0
                   => \/ nodes[n].grade = MaxOf({-nodes[c].grade : c \in Children(nodes, n)})
                      \/ /\ \A c \in Children(nodes, n) : Untouched(nodes, c)
                         /\ nodes[n].grade = NodeEstimate(nodes, n)

\* A node below the root level whose children carry different grades and
\* whose own grade, propagated from them, is not -max(child.grade).
C1_Witness ==
    \E k \in 1..Len(workers) :
        LET nodes == workers[k].tree.nodes
        IN \E n \in 1..Len(nodes) :
               /\ nodes[n].parent # 0
               /\ Len(nodes[n].children) > 1
               /\ \A c \in Children(nodes, n) : ~Untouched(nodes, c)
               /\ nodes[n].grade = MaxOf({-nodes[c].grade : c \in Children(nodes, n)})
               /\ nodes[n].grade # -MaxOf({nodes[c].grade : c \in Children(nodes, n)})
               /\ nodes[nodes[n].parent].grade
                      = MaxOf({-nodes[c].grade : c \in Children(nodes, nodes[n].parent)})

\* The legal moves of the Analyzer's position, as a set.
LegalMoves ==
    LET ms == root_moves(position)
    IN {ms[i] : i \in 1..Len(ms)}

\* C2: for a position with a legal move, once stop has been called after a
\* go, eventually ready is true with every search thread ended and
\* best_move a legal move of the position, not EmptyMove.
C2_StopLeadsToReady ==
    (last_call = "stop" /\ goes >= 1 /\ LegalMoves # {})
        ~> (/\ ready
            /\ \A k \in 1..Len(workers) : ~Alive(k)
            /\ best_move # EmptyMove
            /\ best_move \in LegalMoves)

\* stop was called while a search was running, and the search has ended.
C2_Witness ==
    /\ last_call = "stop"
    /\ Len(workers) = 1
    /\ pc[1] = "done"
    /\ workers[1].index > 0
    /\ workers[1].depth < workers[1].max_depth
    /\ ready
    /\ best_move \in LegalMoves

\* C3: whenever ready is true, no estimation thread is still running.
C3_ReadyMeansNoWorker ==
    ready => \A k \in 1..Len(workers) : ~Alive(k)

\* C4: at most one estimation thread is running at any time.
C4_AtMostOneWorker ==
    Cardinality({k \in 1..Len(workers) : Alive(k)}) <= 1

\* C5: a go called while a search is still running starts no second search.
C5_GoWhileRunningStartsNothing ==
    [][(\E k \in 1..Len(workers) : Alive(k)) => Len(workers') = Len(workers)]_vars

\* C6: best_move is EmptyMove until the first go has returned, and from then
\* on, if the position has a legal move, one of its legal root moves.
C6_BestMoveIsRootMove ==
    /\ goes = 0 => best_move = EmptyMove
    /\ (goes >= 1 /\ LegalMoves # {}) => best_move \in LegalMoves

\* A thread that is past the root level has published, and stop was called.
C6_Witness ==
    /\ ready
    /\ last_call = "stop"
    /\ \E k \in 1..Len(workers) :
           /\ pc[k] = "check"
           /\ workers[k].depth >= 1
           /\ workers[k].index % 10 = 1
    /\ best_move \in LegalMoves

(***************************************************************************)
(* Properties of the legality filter and of Position.move                  *)
(***************************************************************************)

Squares == {[x |-> x, y |-> y] : x \in 0..7, y \in 0..7}

At(board, sq) == board[sq.x][sq.y]

\* The squares strictly between two squares of one rank, file or diagonal.
Between(a, b) ==
    LET n == Max2(Abs(b.x - a.x), Abs(b.y - a.y))
        sx == (b.x - a.x) \div n
        sy == (b.y - a.y) \div n
    IN {[x |-> a.x + i * sx, y |-> a.y + i * sy] : i \in 1..(n - 1)}

\* The piece on `from` attacks the square `to`, by the rules of chess.
Attacks(board, from, to) ==
    LET piece == At(board, from)
        dx == to.x - from.x
        dy == to.y - from.y
        Clear == \A sq \in Between(from, to) : At(board, sq).kind = "empty"
        Straight == (dx = 0 \/ dy = 0) /\ Clear
        Diagonal == Abs(dx) = Abs(dy) /\ Clear
    IN /\ from # to
       /\ CASE piece.kind = "p" ->
                 Abs(dx) = 1 /\ dy = (IF piece.color = "w" THEN 1 ELSE -1)
            [] piece.kind = "n" -> {Abs(dx), Abs(dy)} = {1, 2}
            [] piece.kind = "k" -> Abs(dx) <= 1 /\ Abs(dy) <= 1
            [] piece.kind = "r" -> Straight
            [] piece.kind = "b" -> Diagonal
            [] piece.kind = "q" -> Straight \/ Diagonal
            [] OTHER -> FALSE

\* Some piece of `color` attacks the square.
AttackedBy(board, color, to) ==
    \E from \in Squares : At(board, from).color = color /\ Attacks(board, from, to)

KingSquares(board, color) ==
    {sq \in Squares : At(board, sq) = [kind |-> "k", color |-> color]}

\* C7: no move that filter_illegal_moves returns for the candidate moves of a
\* position leaves the mover's king on a square that is the destination of a
\* candidate move of the opponent in the position after the move.
C7_NoLegalMoveLeavesKingAttacked ==
    legal.listed =>
        \A i \in 1..Len(legal.moves) :
            LET after == move(game, legal.moves[i])
                replies == candidate_moves(after)
            IN \A sq \in KingSquares(after.board, game.turn) :
                   \A j \in 1..Len(replies) : replies[j].finish # sq

\* The filter has dropped a candidate move that would have left the king
\* attacked, and kept at least one move.
C7_Witness ==
    /\ legal.listed
    /\ Len(legal.moves) > 0
    /\ \E i \in 1..Len(legal.candidates) :
           LET after == move(game, legal.candidates[i])
           IN /\ \A j \in 1..Len(legal.moves) : legal.moves[j] # legal.candidates[i]
              /\ \E sq \in KingSquares(after.board, game.turn) :
                     AttackedBy(after.board, after.turn, sq)

\* The castling move of the side to move towards `side` ("k" or "q"): its
\* king goes two files from its home square.
HomeSquare(color) == [x |-> 4, y |-> IF color = "w" THEN 0 ELSE 7]

CastlingMove(color, side) ==
    LET home == HomeSquare(color)
    IN [start |-> home,
        finish |-> [x |-> IF side = "k" THEN 6 ELSE 2, y |-> home.y],
        promotion |-> "none"]

CastlingListed(side) ==
    /\ At(game.board, HomeSquare(game.turn)) = [kind |-> "k", color |-> game.turn]
    /\ \E i \in 1..Len(legal.moves) : legal.moves[i] = CastlingMove(game.turn, side)

\* What the rules ask of a castling: the right, the empty squares between
\* king and rook, and no attack on the king's start, path and destination.
CastlingAllowed(side) ==
    LET home == HomeSquare(game.turn)
        corner == [x |-> IF side = "k" THEN 7 ELSE 0, y |-> home.y]
        step == IF side = "k" THEN 1 ELSE -1
        enemy == IF game.turn = "w" THEN "b" ELSE "w"
    IN /\ game.castling[game.turn][side]
       /\ \A sq \in Between(home, corner) : At(game.board, sq).kind = "empty"
       /\ \A n \in 0..2 :
              ~AttackedBy(game.board, enemy, [x |-> home.x + n * step, y |-> home.y])

\* C8: a castling move is among the legal moves of a position exactly when
\* the mover holds the right, the squares between king and rook are empty,
\* and the king's start square, the square it passes over and its
\* destination are not attacked by the opponent.
C8_CastlingGating ==
    legal.listed =>
        \A side \in {"k", "q"} : CastlingListed(side) <=> CastlingAllowed(side)

\* A castling was listed as legal after the opponent's last move, and in the
\* same position an enemy piece attacks a square next to the king's path.
C8_Witness ==
    /\ legal.listed
    /\ plies = 2
    /\ CastlingListed("q")
    /\ AttackedBy(game.board, "b", [x |-> 1, y |-> 0])

\* The right is held and the squares are empty, but the square the king
\* passes over is attacked: the castling is a candidate and is not legal.
C8_WitnessRefused ==
    /\ legal.listed
    /\ game.castling[game.turn]["q"]
    /\ \E i \in 1..Len(legal.candidates) :
           legal.candidates[i] = CastlingMove(game.turn, "q")
    /\ ~AttackedBy(game.board, "b", HomeSquare(game.turn))
    /\ AttackedBy(game.board, "b", [x |-> 3, y |-> 0])
    /\ ~CastlingListed("q")

\* The last applied move was a pawn's move of two ranks.
PawnMovedTwoRanks ==
    /\ applied # <<>>
    /\ applied[1] # EmptyMove
    /\ At(previous.board, applied[1].start).kind = "p"
    /\ Abs(applied[1].finish.y - applied[1].start.y) = 2

\* C9: after a move is applied the en-passant target is the square the pawn
\* skipped if the move was a pawn's move of two ranks, and empty after every
\* other move, EmptyMove included.
C9_EnPassantWindow ==
    applied # <<>> =>
        IF PawnMovedTwoRanks
        THEN game.en_passant =
                 [x |-> applied[1].start.x,
                  y |-> (applied[1].start.y + applied[1].finish.y) \div 2]
        ELSE game.en_passant = NoCoordinate

\* The move before the last one created a target, and the last move, which
\* was no double push, has cleared it.
C9_Witness ==
    /\ applied # <<>>
    /\ previous.en_passant # NoCoordinate
    /\ ~PawnMovedTwoRanks
    /\ game.en_passant = NoCoordinate

\* C10: a castling right that is false before a move is applied is false
\* after it.
C10_CastlingRightsMonotonic ==
    [][\A color \in {"w", "b"} : \A side \in {"k", "q"} :
           ~game.castling[color][side] => ~game'.castling[color][side]]_vars

\* A move cleared a right, and the next move, by the other side, has left
\* it cleared.
C10_Witness ==
    /\ plies = 2
    /\ applied[1] # EmptyMove
    /\ \E color \in {"w", "b"} : \E side \in {"k", "q"} :
           /\ ~previous.castling[color][side]
           /\ ~game.castling[color][side]
           /\ previous.turn # color
           /\ \E other \in {"k", "q"} :
                  previous.castling[previous.turn][other]
                      /\ ~game.castling[previous.turn][other]

(***************************************************************************)
(* C11: the castling rights a move clears                                  *)
(***************************************************************************)

\* The home corner of a color's rook on a side.
HomeCorner(color, side) ==
    [x |-> IF side = "q" THEN 0 ELSE 7, y |-> IF color = "w" THEN 0 ELSE 7]

\* The last applied move took a color's king off its square.
KingMoved(color) ==
    /\ applied # <<>>
    /\ applied[1] # EmptyMove
    /\ At(previous.board, applied[1].start) = [kind |-> "k", color |-> color]

\* The last applied move took a color's rook off its home corner of a side.
RookLeftCorner(color, side) ==
    /\ applied # <<>>
    /\ applied[1] # EmptyMove
    /\ applied[1].start = HomeCorner(color, side)
    /\ At(previous.board, applied[1].start) = [kind |-> "r", color |-> color]

\* The last applied move ended on a color's rook standing on its home corner
\* of a side.
RookTakenOnCorner(color, side) ==
    /\ applied # <<>>
    /\ applied[1] # EmptyMove
    /\ applied[1].finish = HomeCorner(color, side)
    /\ At(previous.board, applied[1].finish) = [kind |-> "r", color |-> color]

\* C11: after a move is applied, a color whose king moved (castling included)
\* has neither castling right, a color whose rook left its home corner has
\* not the right of that side, and a color whose rook was captured on its
\* home corner (by any move, a promotion included) has not the right of that
\* side.
C11_MoveClearsCastlingRights ==
    \A color \in {"w", "b"} : \A side \in {"k", "q"} :
        (KingMoved(color) \/ RookLeftCorner(color, side) \/ RookTakenOnCorner(color, side))
            => ~game.castling[color][side]

\* A promoting pawn has captured a rook on its home corner and the right of
\* that side, held before the move, is gone.
C11_Witness ==
    \E color \in {"w", "b"} : \E side \in {"k", "q"} :
        /\ RookTakenOnCorner(color, side)
        /\ applied[1].promotion # "none"
        /\ previous.castling[color][side]
        /\ ~game.castling[color][side]

\* A king has castled and a right it held before the move is gone.
C11_WitnessCastling ==
    \E color \in {"w", "b"} : \E side \in {"k", "q"} :
        /\ KingMoved(color)
        /\ Abs(applied[1].finish.x - applied[1].start.x) = 2
        /\ previous.castling[color][side]
        /\ ~game.castling[color][side]

\* A rook has left its home corner and the right of that side, held before
\* the move, is gone.
C11_WitnessRook ==
    \E color \in {"w", "b"} : \E side \in {"k", "q"} :
        /\ RookLeftCorner(color, side)
        /\ previous.castling[color][side]
        /\ ~game.castling[color][side]

(***************************************************************************)
(* C12: what Position.move(EmptyMove()) changes                            *)
(***************************************************************************)

\* The last applied move was an EmptyMove.
EmptyMoveApplied == applied = <<EmptyMove>>

\* The fields the claim lists as untouched by an EmptyMove, the full-move
\* number aside.
EmptyMoveKeeps ==
    /\ game.board = previous.board
    /\ game.castling = previous.castling
    /\ game.number_of_reversible_moves = previous.number_of_reversible_moves
    /\ game.turn = Opposite(previous.turn)
    /\ game.en_passant = NoCoordinate

\* C12 as stated: applying EmptyMove flips the side to move and clears the
\* en-passant target, and leaves the board, the castling rights, the
\* half-move clock and the full-move number as they were, for either side to
\* move.
C12_EmptyMoveOnlyFlipsTurn ==
    EmptyMoveApplied => (EmptyMoveKeeps /\ game.move_number = previous.move_number)

\* C12 as amended: applying EmptyMove flips the side to move, clears the
\* en-passant target and, when Black was to move, adds 1 to the full-move
\* number; the board, the castling rights and the half-move clock are as
\* they were.
C12_EmptyMoveFrame ==
    EmptyMoveApplied =>
        /\ EmptyMoveKeeps
        /\ game.move_number =
               IF previous.turn = "b" THEN previous.move_number + 1 ELSE previous.move_number

\* An EmptyMove was applied with Black to move and an en-passant target set.
C12_Witness ==
    /\ EmptyMoveApplied
    /\ previous.turn = "b"
    /\ previous.en_passant # NoCoordinate
    /\ game.en_passant = NoCoordinate
    /\ game.move_number = previous.move_number + 1

(***************************************************************************)
(* C13: the FEN round trip                                                 *)
(***************************************************************************)

\* C13: for every position reached by applying moves, from_fen(as_fen(p))
\* raises nothing and equals p in every field: board, turn, castling rights,
\* en-passant target, half-move clock and full-move number.
C13_FenRoundTrip ==
    \E decoded \in {from_fen(as_fen(game))} :
        /\ decoded.raised = "none"
        /\ \A field \in {"board", "turn", "castling", "en_passant",
                         "number_of_reversible_moves", "move_number"} :
               decoded.value[field] = game[field]

\* A position reached from the starting position by two moves, with an
\* en-passant target and a full-move number above its first value, whose
\* board text is not that of the starting position.
C13_Witness ==
    /\ plies = 2
    /\ game.en_passant # NoCoordinate
    /\ game.move_number = 1
    /\ as_fen(game)[3] = STARTING_POSITION_FEN[3]
    /\ as_fen(game)[4] # <<"-">>
    /\ as_fen(game)[6] = <<"2">>
    /\ as_fen(game)[1] # STARTING_POSITION_FEN[1]

\* A position whose half-move clock has just gone from two digits to three.
C13_WitnessLongClock ==
    /\ previous.number_of_reversible_moves = 99
    /\ as_fen(game)[5] = <<"1", "0", "0">>

\* Position.deepcopy returns what from_fen makes of as_fen.
deepcopy_IsRoundTrip == deepcopy(game) = from_fen(as_fen(game)).value

(***************************************************************************)
(* C14: go on a position without legal moves                               *)
(***************************************************************************)

\* The step in which a call of go returns.
GoReturned == caller.pc = "go" /\ caller'.pc = "idle"

\* C14: when go returns on a position whose list of legal moves is empty,
\* best_move is EmptyMove, ready is true, and no estimation thread exists,
\* neither started by this call nor by an earlier one.
C14_NoLegalMovesGoFinishesAtOnce ==
    [][(GoReturned /\ root_moves(position) = <<>>)
          => (best_move' = EmptyMove /\ ready' /\ workers' = <<>> /\ pc' = <<>>)]_vars

\* go has returned on the checkmate position: ready was false while the call
\* ran and is true now.
C14_Witness ==
    /\ position = Checkmate
    /\ goes >= 1
    /\ caller.pc = "idle"
    /\ last_call = "go"
    /\ ready
    /\ best_move = EmptyMove
    /\ workers = <<>>

\* go has returned on the stalemate position.
C14_WitnessStalemate ==
    /\ position = Stalemate
    /\ goes >= 1
    /\ caller.pc = "idle"
    /\ ready
    /\ best_move = EmptyMove
    /\ workers = <<>>

(***************************************************************************)
(* C15: go(0)                                                              *)
(***************************************************************************)

\* The twenty moves of the starting position: each pawn one or two squares
\* forward, each knight to the third rank.
OpeningMoves ==
    {[start |-> [x |-> x, y |-> 1], finish |-> [x |-> x, y |-> y], promotion |-> "none"] :
         x \in 0..7, y \in 2..3}
        \cup {[start |-> [x |-> x, y |-> 0], finish |-> [x |-> x + d, y |-> 2],
               promotion |-> "none"] :
                  x \in {1, 6}, d \in {-1, 1}}

\* C15: when go(0) returns on a position with legal moves, best_move is one
\* of the legal moves, ready is true, and the estimation threads are the ones
\* there were before the call, none of them new; the legal moves of the
\* starting position are exactly 20, the opening moves of chess.
C15_DepthZeroGo ==
    [][(GoReturned /\ caller.depth = 0 /\ root_moves(position) # <<>>)
          => /\ best_move' \in LegalMoves
             /\ ready'
             /\ workers' = workers
             /\ pc' = pc
             /\ position = starting_position
                    => (Len(root_moves(position)) = 20 /\ LegalMoves = OpeningMoves)]_vars

\* go(0) has returned on the starting position with one of the twenty moves.
C15_Witness ==
    /\ position = starting_position
    /\ goes >= 1
    /\ caller.pc = "idle"
    /\ last_call = "go"
    /\ ready
    /\ best_move \in OpeningMoves
    /\ workers = <<>>

(***************************************************************************)
(* C16: the half-move clock                                                *)
(***************************************************************************)

\* The last applied move was not an EmptyMove.
MoveApplied == applied # <<>> /\ applied[1] # EmptyMove

\* The figure the last applied move moved, and what stood on its destination.
MovedFigure == At(previous.board, applied[1].start)

TakenCell == At(previous.board, applied[1].finish)

\* C16: after a non-empty move the half-move clock is 0 if the destination
\* cell was occupied before the move or the moved figure is a pawn, and is
\* one more than before otherwise.
C16_HalfMoveClock ==
    MoveApplied =>
        game.number_of_reversible_moves =
            IF TakenCell.kind # "empty" \/ MovedFigure.kind = "p"
            THEN 0
            ELSE previous.number_of_reversible_moves + 1

\* A pawn has captured en passant, onto an empty cell, and the clock is 0.
C16_Witness ==
    /\ MoveApplied
    /\ MovedFigure.kind = "p"
    /\ TakenCell.kind = "empty"
    /\ applied[1].finish.x # applied[1].start.x
    /\ game.number_of_reversible_moves = 0

\* A king has castled and the clock, not 0 before, is one more.
C16_WitnessCastling ==
    /\ MoveApplied
    /\ MovedFigure.kind = "k"
    /\ Abs(applied[1].finish.x - applied[1].start.x) = 2
    /\ previous.number_of_reversible_moves > 0
    /\ game.number_of_reversible_moves = previous.number_of_reversible_moves + 1

\* A figure that is no pawn has captured and the clock, not 0 before, is 0.
C16_WitnessCapture ==
    /\ MoveApplied
    /\ MovedFigure.kind # "p"
    /\ TakenCell.kind # "empty"
    /\ previous.number_of_reversible_moves > 0
    /\ game.number_of_reversible_moves = 0

\* A pawn has been promoted and the clock is 0.
C16_WitnessPromotion ==
    /\ MoveApplied
    /\ applied[1].promotion # "none"
    /\ game.number_of_reversible_moves = 0

(***************************************************************************)
(* C17: the side to move and the full-move number                          *)
(***************************************************************************)

\* The moves of played, without the sides.
PlayedMoves == [i \in 1..Len(played) |-> played[i].move]

\* The number of moves of played that Black made.
BlackMoves == Cardinality({i \in 1..Len(played) : played[i].turn = "b"})

\* The game is the starting position with the moves of played applied.
FromStartingPosition == replay(starting_position, PlayedMoves) = game

\* C17: a move flips the side to move and adds 1 to the full-move number if
\* Black made it, 0 if White did; and in a game played from the starting
\* position the full-move number of the FEN text is 1 + the number of moves
\* Black has made.
C17_TurnAndMoveNumber ==
    /\ applied # <<>> =>
          /\ game.turn = Opposite(previous.turn)
          /\ game.move_number =
                 previous.move_number + (IF previous.turn = "b" THEN 1 ELSE 0)
    /\ FromStartingPosition => as_fen(game)[6] = str(1 + BlackMoves)

\* Two moves into a game from the starting position, the second of them
\* Black's: White is to move again and the text says move 2.
C17_Witness ==
    /\ FromStartingPosition
    /\ Len(played) = 2
    /\ played[2].turn = "b"
    /\ played[2].move # EmptyMove
    /\ BlackMoves = 1
    /\ game.turn = "w"
    /\ as_fen(game)[6] = <<"2">>

(***************************************************************************)
(* C18: the Analyzer's position is not changed by the search               *)
(***************************************************************************)

\* C18: whatever moves are applied to the copies made of it, the Analyzer's
\* Position object has the board, side to move, castling rights, en-passant
\* target and clocks it was created with, and it still holds its own Board
\* and its own castling dict.
C18_PositionReadOnly ==
    /\ Deref(heap, 1) = position
    /\ heap.positions[1].board = 1
    /\ heap.positions[1].castling = 1

\* Two moves have been applied to a copy: its board and its castling rights
\* are no longer those of the Analyzer's position.
C18_Witness ==
    /\ probe.opponents_position # 0
    /\ probe.moves = 2
    /\ Deref(heap, probe.opponents_position).board # position.board
    /\ Deref(heap, probe.opponents_position).castling # position.castling

\* ---------------------------------------------------------------------
\* C19, C20: texts that are not well formed

\* The symbols of a FEN board field: the twelve figures and the counts of
\* empty cells.
FigureSymbols == {"k", "q", "r", "b", "n", "p", "K", "Q", "R", "B", "N", "P"}

EmptyCount(symbol) ==
    CASE symbol = "1" -> 1 [] symbol = "2" -> 2 [] symbol = "3" -> 3
      [] symbol = "4" -> 4 [] symbol = "5" -> 5 [] symbol = "6" -> 6
      [] symbol = "7" -> 7 [] symbol = "8" -> 8 [] OTHER -> 0

Recognised(symbol) ==
    symbol = "/" \/ symbol \in FigureSymbols \/ EmptyCount(symbol) > 0

\* The number of files each rank of a board field describes, rank by rank.
RECURSIVE RankFiles(_)
RankFiles(text) ==
    IF text = <<>> THEN <<0>>
    ELSE LET rest == RankFiles(Tail(text))
         IN IF Head(text) = "/" THEN <<0>> \o rest
            ELSE IF Head(text) \in FigureSymbols THEN [rest EXCEPT ![1] = @ + 1]
            ELSE [rest EXCEPT ![1] = @ + EmptyCount(Head(text))]

WellFormedBoard(text) ==
    /\ \A i \in 1..Len(text) : Recognised(text[i])
    /\ RankFiles(text) = <<8, 8, 8, 8, 8, 8, 8, 8>>

FenDecoded == input.kind = "fen" /\ output.decoded

\* C19: decoding a position whose board field has an unrecognised symbol, or
\* does not describe exactly 8 ranks of exactly 8 files, fails: it never
\* yields a position.
C19_MalformedBoardNeverDecoded ==
    (FenDecoded /\ ~WellFormedBoard(input.text[1])) => output.raised # "none"

FileLetters == {"a", "b", "c", "d", "e", "f", "g", "h"}

RankDigits == {"1", "2", "3", "4", "5", "6", "7", "8"}

MalformedMoveText(text) ==
    \/ Len(text) < 4
    \/ text[1] \notin FileLetters
    \/ text[3] \notin FileLetters
    \/ text[2] \notin RankDigits
    \/ text[4] \notin RankDigits
    \/ Len(text) > 4 /\ text[5] \notin {"k", "q", "r", "b", "n", "p"}

MoveDecoded == input.kind = "move" /\ output.decoded

\* C20: decoding a move text shorter than 4 characters, or with an unknown
\* file letter, an out-of-range rank digit or an unknown promotion letter,
\* fails: it never yields a move.
C20_MalformedMoveTextNeverDecoded ==
    (MoveDecoded /\ MalformedMoveText(input.text)) => output.raised # "none"

\* ---------------------------------------------------------------------
\* C21: clamping of coordinates

Clamped(v) == Min2(7, Max2(0, v))

\* C21: a Coordinate constructed from integers (x, y) has
\* x = min(7, max(0, x)) and y = min(7, max(0, y)), and so has every result
\* of delta for the sums it is given; a Coordinate is always made, whatever
\* the input, and it lies in 0..7 x 0..7.
C21_CoordinateClamped ==
    /\ input.kind = "pair" /\ output.decoded
           => /\ output.raised = "none"
              /\ output.value = [x |-> Clamped(input.text[1]),
                                 y |-> Clamped(input.text[2])]
    /\ input.kind = "delta"
           => /\ output.raised = "none"
              /\ output.value = [x |-> Clamped(input.text[1].x + input.text[2]),
                                 y |-> Clamped(input.text[1].y + input.text[3])]
    /\ input.kind \in {"pair", "delta"} /\ output.decoded
           => output.value.x \in 0..7 /\ output.value.y \in 0..7

\* delta has clamped a file below 0 and a rank above 7.
C21_Witness ==
    /\ input.kind = "delta"
    /\ input.text[1].x + input.text[2] < 0
    /\ input.text[1].y + input.text[3] > 7
    /\ output.value = [x |-> 0, y |-> 7]

\* ---------------------------------------------------------------------
\* C22: what a search does after stop

\* stop was the caller's last call, before and after the step.
Stopped == last_call = "stop" /\ last_call' = "stop"

\* The moves TreeOfMoves.best_move may return for the k-th thread's tree.
BestRootMoves(k) ==
    LET ms == best_moves(workers[k].tree)
    IN {ms[i] : i \in 1..Len(ms)}

\* What a step may do to the k-th thread once stop has been called: it reaches
\* the head of a node's work only by staying there, and a node's work (its
\* children, its grade) only from the creation of that same node's children;
\* its tree grows only there, and the count of nodes done only in the step
\* that follows the node's grade; when it leaves the loops it writes one of
\* the best root moves of its tree to best_move.
StopStep(k) ==
    /\ pc'[k] = "node" => pc[k] = "node"
    /\ pc'[k] = "spawn" => pc[k] = "spawn"
    /\ pc'[k] = "grade" => pc[k] \in {"spawn", "grade"}
    /\ Len(workers'[k].tree.nodes) # Len(workers[k].tree.nodes) => pc[k] = "spawn"
    /\ workers'[k].index # workers[k].index
           => pc[k] = "publish" /\ pc'[k] = "check"
    /\ pc[k] = "check" /\ pc'[k] # "check" => pc'[k] = "level"
    /\ pc[k] = "level" /\ pc'[k] # "level" => pc'[k] = "final"
    /\ pc[k] = "final" /\ pc'[k] # "final"
           => pc'[k] = "final_ready" /\ best_move' \in BestRootMoves(k)

\* C22: once stop has been called, and until the next go, a search thread
\* begins the work of no further node, finishes at most the node it was
\* working on, writes the best root move of its tree to best_move and ends.
C22_StopEndsSearch ==
    /\ [][Stopped => \A k \in 1..Len(workers) : StopStep(k)]_vars
    /\ (last_call = "stop") ~> (last_call = "go" \/ \A k \in 1..Len(workers) : ~Alive(k))

\* stop was called while the thread worked on the first of two root nodes:
\* the thread has finished that node only, published and ended.
C22_Witness ==
    /\ last_call = "stop"
    /\ Len(workers) = 1
    /\ pc[1] = "done"
    /\ Len(workers[1].tree.levels[1]) = 2
    /\ workers[1].index = 1
    /\ workers[1].tree.nodes[2].grade = 0
    /\ best_move \in BestRootMoves(1)

\* ---------------------------------------------------------------------
\* C23: the grades the root nodes start with

\* The i-th root node of the k-th thread's tree has not been given its grade:
\* the thread grades the root nodes in order, before any other node.
Unevaluated(k, i) == i > workers[k].index

\* C23: the root nodes of the tree go seeds start at the sentinel INFINITY, so
\* that a search stopped early never selects a root move it has not evaluated
\* over one it has: a thread that leaves its loops never writes to best_move
\* the move of a root node it has not evaluated when it has evaluated
\* another.
C23_UnevaluatedRootNeverPreferred ==
    [][\A k \in 1..Len(workers) :
          (pc[k] = "final" /\ pc'[k] = "final_ready")
              => ~\E i \in 1..Len(workers[k].tree.levels[1]) :
                     /\ Unevaluated(k, i)
                     /\ workers[k].index > 0
                     /\ best_move' = workers[k].tree.nodes[i].move]_vars

\* ---------------------------------------------------------------------
\* C24: propagation of grades

\* max(-child.grade) over the children of node a
Recomputed(nodes, a) == MaxOf({-nodes[c].grade : c \in Children(nodes, a)})

\* No grade changes from node a up to its root node.
RECURSIVE KeptUpward(_, _, _)
KeptUpward(old, new, a) ==
    /\ new[a].grade = old[a].grade
    /\ old[a].parent # 0 => KeptUpward(old, new, old[a].parent)

\* Node a has been recomputed from its children, and each further ancestor
\* as long as the recomputed grade differs from the old one.
RECURSIVE PropagatedFrom(_, _, _)
PropagatedFrom(old, new, a) ==
    /\ new[a].grade = Recomputed(new, a)
    /\ old[a].parent # 0
           => IF new[a].grade # old[a].grade
              THEN PropagatedFrom(old, new, old[a].parent)
              ELSE KeptUpward(old, new, old[a].parent)

\* The k-th thread creates a child node in this step.
ChildCreated(k) ==
    /\ k <= Len(workers)
    /\ Len(workers'[k].tree.nodes) = Len(workers[k].tree.nodes) + 1

\* The k-th thread assigns the grade of a node below the root level in this
\* step.
GradeAssigned(k) ==
    /\ pc[k] = "grade"
    /\ pc'[k] = "publish"
    /\ workers[k].tree.nodes[CurrentNode(workers[k])].parent # 0

\* C24: right after a child node is created, or the grade of a node below the
\* root level is assigned, the parent's grade is the maximum of its
\* children's negated grades, and so is each further ancestor's for as long
\* as the recomputed grade differs from the old one, up to the root node; the
\* ancestors above the first unchanged one keep their grades.
C24_GradePropagation ==
    [][\A k \in 1..Len(workers) :
          LET old == workers[k].tree.nodes
              new == workers'[k].tree.nodes
              n == CurrentNode(workers[k])
          IN /\ ChildCreated(k)
                    => /\ new[Len(new)].parent = n
                       /\ new[Len(new)].grade = INFINITY
                       /\ PropagatedFrom(old, new, n)
             /\ GradeAssigned(k) => PropagatedFrom(old, new, old[n].parent)]_vars

\* A grade assigned two levels below a root node has just been propagated to
\* the root node: the node's parent and the root node both carry the grade
\* their best child gives them, and the root node's comes from this node.
C24_Witness ==
    \E k \in 1..Len(workers) :
        LET nodes == workers[k].tree.nodes
            n == CurrentNode(workers[k])
        IN /\ pc[k] = "publish"
           /\ nodes[n].parent # 0
           /\ nodes[nodes[n].parent].parent # 0
           /\ nodes[nodes[nodes[n].parent].parent].parent = 0
           /\ nodes[n].grade # 0
           /\ nodes[nodes[n].parent].grade = -nodes[n].grade
           /\ nodes[nodes[nodes[n].parent].parent].grade = nodes[n].grade
           /\ Len(nodes[nodes[n].parent].children) > 1

\* ---------------------------------------------------------------------
\* C25: best_move once ready reads true

\* C25: from the moment ready reads true after a go, and until go is called
\* again, no step changes best_move.
C25_BestMoveFixedOnceReady ==
    [][(ready /\ goes >= 1 /\ caller.pc = "idle") => best_move' = best_move]_vars

\* ---------------------------------------------------------------------
\* C26: the provisional best move and the thread of the same go

\* The step in which go(depth >= 1) writes its provisional best move: the
\* last step of go.
ProvisionalWrite == caller.pc = "go" /\ caller'.pc = "idle"

\* C26: when go(depth >= 1) writes its provisional best move, the thread of
\* that go has published nothing.  In searches of a position with legal
\* moves every go call that has returned started one thread, so the threads
\* that exist before the write are those of the earlier calls; go's own
\* thread exists after the step, at its first statement, with no node done.
C26_ProvisionalBeforeWorker ==
    [][ProvisionalWrite
          => /\ Len(workers) = goes
             /\ Len(workers') = goes + 1
             /\ pc'[goes + 1] = "level"
             /\ workers'[goes + 1].index = 0
             /\ workers'[goes + 1].depth = 0
             /\ \A i \in 1..Len(workers'[goes + 1].tree.nodes) :
                    workers'[goes + 1].tree.nodes[i].grade = 0]_vars

\* A second go has just written its provisional best move and started its
\* thread, after the first go's thread had published.
C26_Witness ==
    /\ goes = 2
    /\ caller.pc = "idle"
    /\ Len(workers) = 2
    /\ workers[1].index > 0
    /\ pc[2] = "level"
    /\ workers[2].depth = 0
    /\ workers[2].index = 0
    /\ best_move \in LegalMoves

\* ---------------------------------------------------------------------
\* C27: the moves a thread publishes

\* The root nodes of the k-th thread's tree.
Roots(k) == {n \in 1..Len(workers[k].tree.nodes) : workers[k].tree.nodes[n].parent = 0}

\* The moves of the root nodes whose negated grade is maximal among the root
\* nodes.
MaximalRootMoves(k) ==
    LET nodes == workers[k].tree.nodes
    IN {nodes[r].move : r \in {r \in Roots(k) : \A q \in Roots(k) : -nodes[q].grade <= -nodes[r].grade}}

\* The k-th thread publishes in this step: after a node, when the count of
\* the nodes done before it is a multiple of 10, or after its loops.
Publishes(k) ==
    \/ pc[k] = "publish" /\ pc'[k] = "check" /\ workers[k].index % 10 = 0
    \/ pc[k] = "final" /\ pc'[k] = "final_ready"

\* The k-th thread can publish the move m in its next step.
CanPublish(k, m) ==
    ENABLED (/\ WorkerPublish(k) \/ WorkerFinalBest(k)
             /\ best_move' = m)

\* C27: every move a search thread writes to best_move, after a node or when
\* its loops have ended, is the move of a root node whose negated grade is
\* maximal among the root nodes at that moment; and each of the moves tied
\* for the maximum can be the one written.
C27_PublishedMoveIsMaximal ==
    /\ [][\A k \in 1..Len(workers) :
             Publishes(k) => best_move' \in MaximalRootMoves(k)]_vars
    /\ [](\A k \in 1..Len(workers) :
             (pc[k] = "final" \/ (pc[k] = "publish" /\ workers[k].index % 10 = 0))
                 => \A m \in MaximalRootMoves(k) : CanPublish(k, m))

\* A thread has left its loops and published the second of two root moves
\* tied for the maximum, both evaluated.
C27_Witness ==
    \E k \in 1..Len(workers) :
        /\ pc[k] = "final_ready"
        /\ workers[k].index >= 2
        /\ Cardinality(MaximalRootMoves(k)) = 2
        /\ best_move = workers[k].tree.nodes[2].move

\* ---------------------------------------------------------------------
\* C28: a castling right that is held

\* A color's king stands on its home square and its rook on the home corner
\* of a side.
AtHome(p, color, side) ==
    /\ At(p.board, HomeSquare(color)) = [kind |-> "k", color |-> color]
    /\ At(p.board, HomeCorner(color, side)) = [kind |-> "r", color |-> color]

\* Every move applied to game was one that filter_illegal_moves returned.
LegalLine == \A i \in 1..Len(played) : played[i].move # EmptyMove

\* C28: in a position reached by legal moves, a castling right that is still
\* held has its color's king on the home square and a rook of that color on
\* the home corner of its side, so that every castling move generated for
\* the side to move has a rook to relocate.
C28_RightMeansKingAndRookAtHome ==
    LegalLine =>
        /\ \A color \in {"w", "b"}, side \in {"k", "q"} :
               game.castling[color][side] => AtHome(game, color, side)
        /\ legal.listed
               => \A side \in {"k", "q"} :
                      (\E i \in 1..Len(legal.candidates) :
                           /\ legal.candidates[i] = CastlingMove(game.turn, side)
                           /\ At(game.board, HomeSquare(game.turn)).kind = "k")
                          => At(game.board, HomeCorner(game.turn, side))
                                 = [kind |-> "r", color |-> game.turn]

\* A rook has just left its home corner and its right is gone, while the
\* opponent still holds a right with king and rook at home, and a castling
\* move has been generated for the opponent.
C28_Witness ==
    /\ plies >= 1
    /\ LegalLine
    /\ legal.listed
    /\ \E color \in {"w", "b"}, side \in {"k", "q"} :
           /\ previous.castling[color][side]
           /\ ~game.castling[color][side]
           /\ At(previous.board, HomeCorner(color, side)) = [kind |-> "r", color |-> color]
           /\ At(game.board, HomeCorner(color, side)).kind = "empty"
    /\ \E side \in {"k", "q"} :
           /\ game.castling[game.turn][side]
           /\ AtHome(game, game.turn, side)
           /\ \E i \in 1..Len(legal.candidates) :
                  legal.candidates[i] = CastlingMove(game.turn, side)

\* ---------------------------------------------------------------------
\* C29: kings in a legal line

OneKingEach(board) ==
    \A color \in {"w", "b"} : Cardinality(KingSquares(board, color)) = 1

\* The king of the side that is not to move is not attacked.
WaitingKingSafe(p) ==
    \A sq \in KingSquares(p.board, Opposite(p.turn)) : ~AttackedBy(p.board, p.turn, sq)

\* C29: from a position with one king of each color in which the king of the
\* side not to move is not attacked, every position reached by applying
\* moves that filter_illegal_moves returned has one king of each color, and
\* again the king of the side not to move is not attacked: no king is ever
\* captured.
C29_KingsNeverCaptured ==
    LegalLine => OneKingEach(game.board) /\ WaitingKingSafe(game)

\* Two legal moves have been applied, the second one gives check, and the
\* filter has dropped candidate moves of the side in check.
C29_Witness ==
    /\ plies = 2
    /\ LegalLine
    /\ legal.listed
    /\ Len(legal.moves) < Len(legal.candidates)
    /\ \E sq \in KingSquares(game.board, game.turn) :
           AttackedBy(game.board, Opposite(game.turn), sq)
    /\ OneKingEach(game.board)

\* ---------------------------------------------------------------------
\* C30: the tree of a search that ran to its end

\* The k-th thread has ended after it did the work of every node of its tree.
RanToCompletion(k) ==
    /\ pc[k] = "done"
    /\ workers[k].index = Len(workers[k].tree.nodes)

\* C30: when a search has run to its end, every node of its tree that has
\* children has the grade max(-child.grade for child in children), and every
\* node without children has the grade the evaluator gives its position.
C30_CompletedTreeIsConsistent ==
    \A k \in 1..Len(workers) :
        RanToCompletion(k)
            => LET nodes == workers[k].tree.nodes
               IN \A n \in 1..Len(nodes) :
                      IF Len(nodes[n].children) > 0
                      THEN nodes[n].grade = Recomputed(nodes, n)
                      ELSE nodes[n].grade = NodeEstimate(nodes, n)

\* A search of two full moves has run to its end without a stop: its tree
\* has four levels, and a root node has children of different grades.
C30_Witness ==
    /\ last_call = "go"
    /\ ready
    /\ Len(workers) = 1
    /\ RanToCompletion(1)
    /\ workers[1].max_depth = 4
    /\ Len(workers[1].tree.levels) = 4
    /\ Len(workers[1].tree.levels[4]) > 0
    /\ \E c, d \in Children(workers[1].tree.nodes, 1) :
           workers[1].tree.nodes[c].grade # workers[1].tree.nodes[d].grade

\* ---------------------------------------------------------------------
\* C31: a search that is never stopped ends

\* Where the k-th thread is in its two loops: the level and the place in it.
Place(w) == <<w.depth, w.at>>

Before(a, b) == a[1] < b[1] \/ (a[1] = b[1] /\ a[2] < b[2])

\* What a step does to the place of the k-th thread: the thread never goes
\* back, it is past a node when it leaves the end of that node's work, it
\* does a node's work where it stands, on a node of one of the first
\* max_depth levels, and it leaves the loops only at the end of the range, at
\* a level without nodes, or when _ready reads true.
VisitsOnce(k) ==
    LET w == workers[k]
    IN /\ Place(workers'[k]) = Place(w) \/ Before(Place(w), Place(workers'[k]))
       /\ pc[k] = "check" /\ pc'[k] # "check" => Before(Place(w), Place(workers'[k]))
       /\ pc'[k] \in {"spawn", "grade", "publish", "check"}
              => /\ Place(workers'[k]) = Place(w)
                 /\ w.depth < w.max_depth
                 /\ w.at <= Len(w.tree.levels[w.depth + 1])
       /\ workers'[k].index # w.index
              => pc[k] = "publish" /\ workers'[k].index = w.index + 1
       /\ pc[k] = "level" /\ pc'[k] = "final"
              => \/ w.depth = w.max_depth
                 \/ Len(w.tree.levels[w.depth + 1]) = 0
                 \/ ready

\* How the k-th thread ends: from the loops it goes on to write a best root
\* move of its tree to best_move, then _ready = True, and only then returns.
EndsByPublishing(k) ==
    /\ pc[k] = "level" /\ pc'[k] # "level" => pc'[k] \in {"node", "final"}
    /\ pc[k] = "final" /\ pc'[k] # "final"
           => pc'[k] = "final_ready" /\ best_move' \in BestRootMoves(k)
    /\ pc[k] # "done" /\ pc'[k] = "done" => pc[k] = "final_ready" /\ ready'

\* The first thread has ended; stop has not been called since the first go
\* began, and no later go has been called.
FirstSearchEnded ==
    /\ goes = 1
    /\ caller.pc = "idle"
    /\ last_call = "go"
    /\ Len(workers) = 1
    /\ pc[1] = "done"

\* The thread did the work of every node of its tree, at most max_depth
\* levels, and wrote a best root move of the tree and _ready = True.
EndedInFull ==
    LET w == workers[1]
    IN /\ w.index = Len(w.tree.nodes)
       /\ w.depth <= w.max_depth
       /\ Len(w.tree.levels) <= w.max_depth
       /\ w.depth = w.max_depth \/ Len(w.tree.levels[w.depth + 1]) = 0
       /\ ready
       /\ best_move \in BestRootMoves(1)

\* C31: a thread passes the nodes of at most max_depth = 2 * depth levels in
\* order, each at most once; every started thread ends, with ready true
\* when it does; and a thread that was not stopped has then done the work of
\* every node of its tree, up to the end of the range or up to a level
\* without nodes, and has written a best root move of the tree.
C31_UnstoppedSearchTerminates ==
    /\ [][\A k \in 1..Len(workers) : VisitsOnce(k) /\ EndsByPublishing(k)]_vars
    /\ \A k \in 1..MaxGo : (Len(workers) >= k) ~> (Len(pc) >= k /\ pc[k] = "done" /\ ready)
    /\ [](FirstSearchEnded => EndedInFull)

\* A search of one full move has ended at its second level, which has no
\* node: the only root move leaves the opponent without a move.
C31_Witness ==
    /\ last_call = "go"
    /\ FirstSearchEnded
    /\ ready
    /\ workers[1].max_depth = 2
    /\ workers[1].depth = 1
    /\ Len(workers[1].tree.levels) = 2
    /\ Len(workers[1].tree.levels[2]) = 0
    /\ workers[1].index = 1
    /\ best_move = workers[1].tree.nodes[1].move

\* ---------------------------------------------------------------------
\* C32: what the evaluator returns

\* The piece values, by FEN letter of the kind.
PieceValue ==
    [kind \in {"p", "n", "b", "r", "q", "k"} |->
        CASE kind = "p" -> 1
          [] kind = "n" -> 3
          [] kind = "b" -> 3
          [] kind = "r" -> 5
          [] kind = "q" -> 9
          [] kind = "k" -> 300]

\* The squares of board that hold a figure of color and of kind.
SquaresOf(board, color, kind) ==
    {sq \in Squares : At(board, sq) = Figure(kind, color)}

\* The material of color: the values of its figures, added up.
Material(board, color) ==
    PieceValue["p"] * Cardinality(SquaresOf(board, color, "p"))
      + PieceValue["n"] * Cardinality(SquaresOf(board, color, "n"))
      + PieceValue["b"] * Cardinality(SquaresOf(board, color, "b"))
      + PieceValue["r"] * Cardinality(SquaresOf(board, color, "r"))
      + PieceValue["q"] * Cardinality(SquaresOf(board, color, "q"))
      + PieceValue["k"] * Cardinality(SquaresOf(board, color, "k"))

\* The position with the other side to move and no en-passant target.
TurnFlipped(p) ==
    [p EXCEPT !.turn = Opposite(p.turn), !.en_passant = NoCoordinate]

\* The opponent's legal moves: its candidates in the turn-flipped position,
\* filtered there.
OpponentMoves(p) ==
    filter_illegal_moves(TurnFlipped(p), candidate_moves(TurnFlipped(p)))

\* The mover's king is attacked by a figure of the opponent.
MoverInCheck(p) ==
    \E sq \in KingSquares(p.board, p.turn) :
        AttackedBy(p.board, Opposite(p.turn), sq)

\* The grade the claim gives, in hundredths.
ExpectedGrade(p, own_moves) ==
    IF Len(own_moves) = 0
    THEN IF MoverInCheck(p) THEN -30000 ELSE 0
    ELSE (Material(p.board, p.turn) - Material(p.board, Opposite(p.turn))) * 100
             + (Len(own_moves) - Len(OpponentMoves(p)))

\* C32: for a position and its legal moves the evaluator returns -300 when
\* there is no legal move and the mover's king is attacked, 0 when there is
\* no legal move and it is not, and otherwise the mover's material minus the
\* opponent's (Pawn 1, Knight 3, Bishop 3, Rook 5, Queen 9, King 300) plus a
\* hundredth of the mover's legal move count minus the opponent's, the
\* opponent's moves being those left by the filter in the turn-flipped
\* position.
C32_EvaluatorGrade ==
    input.kind = "estimate"
        => output.value = ExpectedGrade(input.text[1], input.text[2])

\* The evaluator has graded a mate, a stalemate, and a position in which the
\* en-passant target would give the opponent one more move.
C32_Witness ==
    /\ input.kind = "estimate"
    /\ input.text[1] = PushedPawn
    /\ Len(input.text[2]) = 5
    /\ output.value = -200 + (5 - 7)

C32_WitnessMate ==
    /\ input.kind = "estimate"
    /\ input.text[1] = Checkmate
    /\ input.text[2] = <<>>
    /\ output.value = -30000

\* ---------------------------------------------------------------------
\* C33: the moves of a pawn

\* The square dx files and dy ranks from sq, as a one-member set; empty when
\* it is off the board.
SquareAt(sq, dx, dy) ==
    {t \in Squares : t.x = sq.x + dx /\ t.y = sq.y + dy}

\* The squares a pawn of color on sq may move to: one ahead if empty, two
\* ahead from the starting rank if both are empty, and diagonally ahead onto
\* an opponent's figure or onto the en-passant target.
PawnTargets(p, color, sq) ==
    LET ahead == IF color = "w" THEN 1 ELSE -1
        starting_rank == IF color = "w" THEN 1 ELSE 6
        Empty(t) == At(p.board, t).kind = "empty"
        one == {t \in SquareAt(sq, 0, ahead) : Empty(t)}
        two == {t \in SquareAt(sq, 0, 2 * ahead) :
                   sq.y = starting_rank /\ one # {} /\ Empty(t)}
        taken == {t \in SquareAt(sq, -1, ahead) \cup SquareAt(sq, 1, ahead) :
                     \/ At(p.board, t).color = Opposite(color)
                     \/ t = p.en_passant}
    IN one \cup two \cup taken

\* The moves of the pawn: four per target on the far rank, one otherwise.
PawnMoves(p, color, sq) ==
    LET far_rank == IF color = "w" THEN 7 ELSE 0
    IN UNION {IF t.y = far_rank
              THEN {Move(sq, t, kind) : kind \in {"q", "r", "b", "n"}}
              ELSE {Move(sq, t, "none")} : t \in PawnTargets(p, color, sq)}

\* The candidate moves listed for game that start on sq, and their number.
ListedFrom(sq) ==
    {legal.candidates[i] : i \in {j \in 1..Len(legal.candidates) :
                                     legal.candidates[j].start = sq}}

CountFrom(sq) ==
    Cardinality({j \in 1..Len(legal.candidates) : legal.candidates[j].start = sq})

\* C33: the moves listed for each pawn of the side to move are exactly the
\* push of one square onto an empty cell, the push of two squares from the
\* starting rank over two empty cells, and the moves diagonally ahead onto an
\* opponent's figure or the en-passant target, each once, with the four
\* promotions in place of the plain move when the target is on the far rank.
C33_PawnMovesExact ==
    legal.listed
        => \A sq \in Squares :
               At(game.board, sq) = Figure("p", game.turn)
                   => /\ ListedFrom(sq) = PawnMoves(game, game.turn, sq)
                      /\ CountFrom(sq) = Cardinality(PawnMoves(game, game.turn, sq))

\* ---------------------------------------------------------------------
\* C34: the sliding scan along a ray

\* The i-th cell from sq in the direction d.
RayCell(sq, d, i) == [x |-> sq.x + i * d[1], y |-> sq.y + i * d[2]]

\* The steps from sq in the direction d that stay on the board.
OnRay(sq, d) == {i \in 1..7 : RayCell(sq, d, i) \in Squares}

\* The steps the scan yields: the cells before the first figure of the ray,
\* and that figure's cell when it is the opponent's.
Reached(board, sq, d) ==
    {i \in OnRay(sq, d) :
        /\ \A j \in 1..(i - 1) : At(board, RayCell(sq, d, j)).kind = "empty"
        /\ At(board, RayCell(sq, d, i)).color # At(board, sq).color}

\* The moves of the ray, nearest cell first.
RayMoves(board, sq, d) ==
    [i \in 1..Cardinality(Reached(board, sq, d)) |-> Move(sq, RayCell(sq, d, i), "none")]

\* The moves the loop holds are the first moves of xs.
IsPrefix(ms, xs) == Len(ms) <= Len(xs) /\ ms = SubSeq(xs, 1, Len(ms))

\* C34: for a rook, a bishop or a queen on any start square, the scan along
\* each ray ends; when it has ended it has yielded, nearest first, every
\* empty cell up to the first figure of the ray and that figure's cell only
\* if the figure is the opponent's, as _delta_moves returns them for the
\* ray; it never yields a move onto the start square, past a figure or past
\* the edge of the board.
C34_SlidingScan ==
    /\ [](input.kind = "scan"
            => /\ IsPrefix(output.value.moves,
                           RayMoves(game.board, input.text[1], input.text[2]))
               /\ \A i \in 1..Len(output.value.moves) :
                      /\ output.value.moves[i].finish # input.text[1]
                      /\ output.value.moves[i].finish \in Squares
               /\ output.decoded
                      => /\ output.value.moves
                                = RayMoves(game.board, input.text[1], input.text[2])
                         /\ output.value.moves
                                = delta_moves(At(game.board, input.text[1]).color,
                                              input.text[1], game, <<input.text[2]>>))
    /\ (input.kind = "scan" /\ ~output.decoded) ~> output.decoded

\* The scan of the d5 bishop towards h8 has ended at the edge of the board
\* after the three empty cells e6, f7 and g8.
C34_Witness ==
    /\ game = SlidersAtEdges
    /\ input = [kind |-> "scan", text |-> <<Coordinate(3, 4), <<1, 1>> >>]
    /\ output.decoded
    /\ Len(output.value.moves) = 3
    /\ output.value.moves[3].finish = Coordinate(6, 7)

\* The scan of the a1 rook up its file has ended on the opponent's queen on
\* a8, and the scan of the a8 queen towards h1 on its own bishop on d5.
C34_WitnessCapture ==
    /\ game = SlidersAtEdges
    /\ input = [kind |-> "scan", text |-> <<Coordinate(0, 0), <<0, 1>> >>]
    /\ output.decoded
    /\ Len(output.value.moves) = 7
    /\ output.value.moves[7].finish = Coordinate(0, 7)

C34_WitnessBlocked ==
    /\ game = SlidersAtEdges
    /\ input = [kind |-> "scan", text |-> <<Coordinate(0, 7), <<1, -1>> >>]
    /\ output.decoded
    /\ Len(output.value.moves) = 2
    /\ output.value.current = Coordinate(3, 4)

\* ---------------------------------------------------------------------
\* C35: what a castling move does to the board

\* The last applied move took the king of the side to move from its e-file
\* home square two files towards the corner of `side`, where a rook of its
\* color stood.
CastlingApplied(side) ==
    /\ MoveApplied
    /\ MovedFigure = Figure("k", previous.turn)
    /\ applied[1].start = HomeSquare(previous.turn)
    /\ applied[1].finish
           = [x |-> IF side = "k" THEN 6 ELSE 2, y |-> applied[1].start.y]
    /\ At(previous.board, HomeCorner(previous.turn, side)) = Figure("r", previous.turn)

\* The cells of the back rank after castling on `side`: the king and the
\* rook on their new cells, the cells they left and the cell the rook
\* passed empty; every other cell of the board as before.
CastledBoard(side) ==
    LET color == previous.turn
        y == applied[1].start.y
        king_x == IF side = "k" THEN 6 ELSE 2
        rook_x == IF side = "k" THEN 5 ELSE 3
        emptied == IF side = "k" THEN {4, 7} ELSE {0, 1, 4}
    IN /\ game.board[king_x][y] = Figure("k", color)
       /\ game.board[rook_x][y] = Figure("r", color)
       /\ \A x \in emptied : game.board[x][y] = EmptyCell
       /\ \A sq \in Squares :
              (sq.y # y \/ sq.x \notin ({king_x, rook_x} \cup emptied))
                  => At(game.board, sq) = At(previous.board, sq)

\* C35: a short castling takes the king from e to g and the rook from the h
\* corner to f, a long castling the king from e to c and the rook from the a
\* corner to d; the cells they left, and b after a long castling, are empty
\* afterwards, and no other cell of the board changes.
C35_CastlingRelocatesBoth ==
    \A side \in {"k", "q"} : CastlingApplied(side) => CastledBoard(side)

\* Black has castled long after White castled short: c8 and d8 hold the
\* black king and rook, g1 and f1 the white ones.
C35_Witness ==
    /\ CastlingApplied("q")
    /\ previous.turn = "b"
    /\ game.board[2][7] = Figure("k", "b")
    /\ game.board[3][7] = Figure("r", "b")
    /\ game.board[6][0] = Figure("k", "w")
    /\ game.board[5][0] = Figure("r", "w")
    /\ game.board[7][7] = Figure("r", "b")

\* ---------------------------------------------------------------------
\* C36: what an en-passant capture does to the board

\* The last applied move is a move of a pawn of the side to move onto the
\* en-passant target.
EnPassantApplied ==
    /\ MoveApplied
    /\ MovedFigure = Figure("p", previous.turn)
    /\ applied[1].finish = previous.en_passant

\* The cell of the pawn an en-passant capture takes: on the target's file
\* and the capturing pawn's starting rank.
PassedPawnSquare == [x |-> applied[1].finish.x, y |-> applied[1].start.y]

\* The number of figures on a board.
FigureCount(board) == Cardinality({sq \in Squares : At(board, sq).kind # "empty"})

\* C36: an en-passant capture puts the capturing pawn on the target, leaves
\* its start cell empty, empties the cell on the target's file and the
\* pawn's starting rank, which held a pawn of the opponent, changes no other
\* cell, and leaves one figure less on the board.
C36_EnPassantCapture ==
    EnPassantApplied
        => /\ At(game.board, applied[1].finish) = Figure("p", previous.turn)
           /\ At(game.board, applied[1].start) = EmptyCell
           /\ At(previous.board, PassedPawnSquare) = Figure("p", Opposite(previous.turn))
           /\ At(game.board, PassedPawnSquare) = EmptyCell
           /\ \A sq \in Squares \ {applied[1].start, applied[1].finish, PassedPawnSquare} :
                  At(game.board, sq) = At(previous.board, sq)
           /\ FigureCount(game.board) = FigureCount(previous.board) - 1

\* White has taken en passant on a6 the pawn that Black had just pushed from
\* a7 to a5.
C36_Witness ==
    /\ EnPassantApplied
    /\ plies = 2
    /\ played[1].move = Move(Coordinate(0, 6), Coordinate(0, 4), "none")
    /\ applied[1] = Move(Coordinate(1, 4), Coordinate(0, 5), "none")
    /\ game.board[0][5] = Figure("p", "w")
    /\ game.board[0][4] = EmptyCell
    /\ FigureCount(game.board) = 3

\* Black has taken en passant on c3 a pawn on c4, the target given by the FEN.
C36_WitnessBlack ==
    /\ EnPassantApplied
    /\ plies = 1
    /\ previous = TargetGiven
    /\ game.board[2][2] = Figure("p", "b")
    /\ game.board[2][3] = EmptyCell

\* ---------------------------------------------------------------------
\* C37: the shape of the tree

\* The nodes of the l-th level of a tree, the first level being the root
\* moves.
LevelNodes(tree, l) == {tree.levels[l][i] : i \in 1..Len(tree.levels[l])}

\* The moves that are legal after the moves of a node's chain, from the
\* Analyzer's position.
LegalAfter(nodes, n) ==
    LET p == replay(position, moves_chain(nodes, n))
        ms == filter_illegal_moves(p, candidate_moves(p))
    IN {ms[i] : i \in 1..Len(ms)}

\* The levels of the k-th thread's tree: at most max_depth of them; every
\* node is on one level; the nodes of the first level have no parent and
\* carry legal moves of the position; every node of a later level is a child
\* of a node of the level before; the nodes of the level max_depth have no
\* children.
TreeShape(k) ==
    LET tree == workers[k].tree
        max_depth == workers[k].max_depth
    IN /\ Len(tree.levels) >= 1
       /\ Len(tree.levels) <= max_depth
       /\ \A n \in 1..Len(tree.nodes) :
              Cardinality({l \in 1..Len(tree.levels) : n \in LevelNodes(tree, l)}) = 1
       /\ \A n \in LevelNodes(tree, 1) :
              tree.nodes[n].parent = 0 /\ tree.nodes[n].move \in LegalMoves
       /\ \A l \in 2..Len(tree.levels) : \A n \in LevelNodes(tree, l) :
              /\ tree.nodes[n].parent \in LevelNodes(tree, l - 1)
              /\ n \in Children(tree.nodes, tree.nodes[n].parent)
       /\ \A l \in 1..Len(tree.levels) : \A n \in LevelNodes(tree, l) :
              /\ Children(tree.nodes, n) # {} => l < max_depth
              /\ \A c \in Children(tree.nodes, n) :
                     l < Len(tree.levels) /\ c \in LevelNodes(tree, l + 1)

\* What a step does to the k-th thread's tree: the nodes it has keep their
\* moves and parents, and a node it gains carries a move that is legal after
\* the moves of its parent's chain.
TreeGrows(k) ==
    LET nodes == workers[k].tree.nodes
        after == workers'[k].tree.nodes
    IN /\ Len(after) >= Len(nodes)
       /\ \A n \in 1..Len(nodes) :
              after[n].move = nodes[n].move /\ after[n].parent = nodes[n].parent
       /\ \A n \in (Len(nodes) + 1)..Len(after) :
              /\ after[n].parent \in 1..Len(nodes)
              /\ after[n].move \in LegalAfter(nodes, after[n].parent)

\* go(depth) gives the thread it starts max_depth = 2 * depth.
ThreadStarted ==
    Len(workers') > Len(workers)
        => /\ caller.depth >= 1
           /\ workers'[Len(workers')].max_depth = 2 * caller.depth

\* C37: the tree of a search started by go(depth) never has more than
\* 2 * depth levels; every node of a level after the first is a child of a
\* node of the level before and carries a move that is legal in the position
\* reached from the root position by the moves of its ancestors; the nodes
\* of the level 2 * depth have no children.
C37_TreeLevels ==
    /\ [](\A k \in 1..Len(workers) : TreeShape(k))
    /\ [][ThreadStarted /\ \A k \in 1..Len(workers) : TreeGrows(k)]_vars

\* A search of two full moves has filled its fourth level: the tree has four
\* levels, nodes on each, and no node of the fourth has a child.
C37_Witness ==
    /\ Len(workers) = 1
    /\ workers[1].max_depth = 4
    /\ pc[1] = "done"
    /\ Len(workers[1].tree.levels) = 4
    /\ Len(workers[1].tree.levels[4]) > 1
    /\ \A n \in LevelNodes(workers[1].tree, 4) :
           /\ Children(workers[1].tree.nodes, n) = {}
           /\ workers[1].tree.nodes[n].parent \in LevelNodes(workers[1].tree, 3)
    /\ workers[1].index = Len(workers[1].tree.nodes)

\* ---------------------------------------------------------------------
\* C38: the castling rights a move leaves alone

\* The last applied move changed a color's right of a side.
RightChanged(color, side) ==
    /\ applied # <<>>
    /\ previous.castling[color][side] # game.castling[color][side]

\* C38: a move that is applied changes a castling right (color, side) only
\* if it moves that color's king, moves a rook of that color off that side's
\* home corner, or ends on a rook of that color standing on that corner; a
\* queen that leaves a home corner or is captured on one changes no right.
C38_CastlingRightsFrame ==
    \A color \in {"w", "b"} : \A side \in {"k", "q"} :
        RightChanged(color, side)
            => (KingMoved(color) \/ RookLeftCorner(color, side)
                    \/ RookTakenOnCorner(color, side))

=============================================================================
